---- MODULE Spec2Model ----
(***************************************************************************)
(* PricePulse price worker (scripts/price-worker.ts) and the dashboard     *)
(* handlers that create the rows it works on.                              *)
(*                                                                         *)
(* Text is modelled as sequences of one-character strings, prices as       *)
(* natural numbers of currency units, scores as exact fractions.           *)
(***************************************************************************)
EXTENDS Integers, Sequences, FiniteSets, TLC

(***************************************************************************)
(* Bounds of the model                                                     *)
(***************************************************************************)
MaxProducts == 2   \* product rows created in a behaviour
MaxRuns == 2       \* worker runs in a behaviour
MaxCycles == 2     \* products processed in a behaviour, over all runs
MaxFaults == 1     \* failing calls of the environment in a behaviour
MaxListings == 1   \* search fetches that return a match in a behaviour

(***************************************************************************)
(* Characters and strings                                                  *)
(***************************************************************************)
\* null of a nullable number column, and the value a fetch returns for
\* "no result" (null)
NullPrice == 0 - 1
NoResult == [found |-> FALSE]

UpperChars == <<"A","B","C","D","E","F","G","H","I","J","K","L","M",
                "N","O","P","Q","R","S","T","U","V","W","X","Y","Z">>
LowerChars == <<"a","b","c","d","e","f","g","h","i","j","k","l","m",
                "n","o","p","q","r","s","t","u","v","w","x","y","z">>
DigitChars == {"0","1","2","3","4","5","6","7","8","9"}

UpperSet == {UpperChars[i] : i \in 1..26}
LowerSet == {LowerChars[i] : i \in 1..26}
IsUpper(c) == c \in UpperSet
IsLower(c) == c \in LowerSet

LowerOf == [c \in UpperSet |-> LowerChars[CHOOSE i \in 1..26 : UpperChars[i] = c]]
UpperOf == [c \in LowerSet |-> UpperChars[CHOOSE i \in 1..26 : LowerChars[i] = c]]

\* String.prototype.toLowerCase, one character
toLowerChar(c) == IF IsUpper(c) THEN LowerOf[c] ELSE c

\* String.prototype.toUpperCase, one character
toUpperChar(c) == IF IsLower(c) THEN UpperOf[c] ELSE c

\* a function over 1..n as a sequence
AsSeq(f, n) == SubSeq(f, 1, n)

toLowerCase(s) == AsSeq([i \in 1..Len(s) |-> toLowerChar(s[i])], Len(s))

\* the regular-expression classes \w and \s
IsWordChar(c) == IsUpper(c) \/ IsLower(c) \/ c \in DigitChars \/ c = "_"
IsSpace(c) == c = " "

\* s.startsWith(p)
startsWith(s, p) == Len(s) >= Len(p) /\ SubSeq(s, 1, Len(p)) = p

\* s.includes(p)
includes(s, p) ==
    \E i \in 1..(Len(s) + 1) :
        i + Len(p) - 1 <= Len(s) /\ SubSeq(s, i, i + Len(p) - 1) = p

\* s.trim()
RECURSIVE trimStart(_)
trimStart(s) == IF s # <<>> /\ IsSpace(Head(s)) THEN trimStart(Tail(s)) ELSE s
RECURSIVE trimEnd(_)
trimEnd(s) ==
    IF s # <<>> /\ IsSpace(s[Len(s)]) THEN trimEnd(SubSeq(s, 1, Len(s) - 1)) ELSE s
trim(s) == trimEnd(trimStart(s))

\* s.split(sep) for a one-character separator: the pieces between separators,
\* empty pieces included
RECURSIVE splitAcc(_, _, _, _)
splitAcc(s, sep, cur, acc) ==
    IF s = <<>> THEN Append(acc, cur)
    ELSE IF Head(s) = sep THEN splitAcc(Tail(s), sep, <<>>, Append(acc, cur))
    ELSE splitAcc(Tail(s), sep, Append(cur, Head(s)), acc)
split(s, sep) == splitAcc(s, sep, <<>>, <<>>)

\* s.split(/\s+/): a run of white space is one separator
RECURSIVE splitWsAcc(_, _, _, _)
splitWsAcc(s, cur, acc, inWs) ==
    IF s = <<>> THEN (IF inWs THEN Append(acc, <<>>) ELSE Append(acc, cur))
    ELSE IF IsSpace(Head(s))
         THEN (IF inWs THEN splitWsAcc(Tail(s), <<>>, acc, TRUE)
                       ELSE splitWsAcc(Tail(s), <<>>, Append(acc, cur), TRUE))
         ELSE splitWsAcc(Tail(s), Append(cur, Head(s)), acc, FALSE)
splitWs(s) == splitWsAcc(s, <<>>, <<>>, FALSE)


\* Array.prototype.join(' ')
RECURSIVE joinSpace(_)
joinSpace(xs) ==
    IF xs = <<>> THEN <<>>
    ELSE IF Len(xs) = 1 THEN xs[1]
    ELSE xs[1] \o <<" ">> \o joinSpace(Tail(xs))

Min(a, b) == IF a <= b THEN a ELSE b
Max(a, b) == IF a >= b THEN a ELSE b
Abs(a) == IF a >= 0 THEN a ELSE 0 - a

(***************************************************************************)
(* Text Similarity Engine                                                  *)
(***************************************************************************)
\* one row of the edit-distance matrix from the row above it; the row is
\* kept as a sequence whose element j + 1 is matrix[i][j]
RECURSIVE levRow(_, _, _, _, _)
levRow(prev, c, s2, j, acc) ==
    IF j > Len(s2) THEN acc
    ELSE LET cost == IF c = s2[j] THEN 0 ELSE 1
             v == Min(Min(prev[j + 1] + 1, acc[j] + 1), prev[j] + cost)
             next == Append(acc, v)
         IN IF Len(next) = j + 1 THEN levRow(prev, c, s2, j + 1, next) ELSE next

RECURSIVE levRows(_, _, _, _)
levRows(s1, s2, i, prev) ==
    IF i > Len(s1) THEN prev
    ELSE LET row == levRow(prev, s1[i], s2, 1, <<i>>)
         IN IF Len(row) = Len(prev) THEN levRows(s1, s2, i + 1, row) ELSE row

levenshteinDistance(str1, str2) ==
    LET s1 == toLowerCase(str1)
        s2 == toLowerCase(str2)
        row0 == AsSeq([j \in 1..(Len(s2) + 1) |-> j - 1], Len(s2) + 1)
    IN levRows(s1, s2, 1, row0)[Len(s2) + 1]

\* fractions <<numerator, denominator>>, denominator > 0
Frac(n, d) == <<n, d>>
FracAdd(a, b) == <<a[1] * b[2] + b[1] * a[2], a[2] * b[2]>>
FracMul(a, b) == <<a[1] * b[1], a[2] * b[2]>>
FracGe(a, b) == a[1] * b[2] >= b[1] * a[2]
FracGt(a, b) == a[1] * b[2] > b[1] * a[2]
FracEq(a, b) == a[1] * b[2] = b[1] * a[2]

\* variant: no convention for two empty strings, the similarity is 0
calculateSimilarityNoConvention(str1, str2) ==
    LET maxLen == Max(Len(str1), Len(str2))
    IN IF maxLen = 0 THEN Frac(0, 1)
       ELSE Frac(maxLen - levenshteinDistance(str1, str2), maxLen)

calculateSimilarity(str1, str2) ==
    LET maxLen == Max(Len(str1), Len(str2))
    IN IF maxLen = 0 THEN Frac(1, 1)
       ELSE Frac(maxLen - levenshteinDistance(str1, str2), maxLen)

stopWords ==
    { <<"t","h","e">>, <<"a">>, <<"a","n">>, <<"a","n","d">>, <<"o","r">>,
      <<"b","u","t">>, <<"i","n">>, <<"w","i","t","h">>, <<"f","o","r">>,
      <<"o","n">>, <<"a","t">>, <<"t","o">>, <<"f","r","o","m">>,
      <<"b","y">>, <<"o","f">>, <<"a","s">> }

\* name.replace(/[^\w\s-]/g, ' ')
replaceNonWord(s) ==
    AsSeq([i \in 1..Len(s) |->
              IF IsWordChar(s[i]) \/ IsSpace(s[i]) \/ s[i] = "-" THEN s[i] ELSE " "],
          Len(s))

IsKeyword(w) == Len(w) > 2 /\ w \notin stopWords

extractKeywords(name) ==
    SelectSeq(splitWs(replaceNonWord(toLowerCase(name))), IsKeyword)

SeqToSet(xs) == {xs[i] : i \in 1..Len(xs)}

calculateKeywordScore(targetName, resultTitle) ==
    LET targetKeywords == SeqToSet(extractKeywords(targetName))
        resultKeywords == extractKeywords(resultTitle)
        matches == Cardinality({i \in 1..Len(resultKeywords) :
                                   resultKeywords[i] \in targetKeywords})
    IN IF Cardinality(targetKeywords) = 0 THEN Frac(0, 1)
       ELSE Frac(matches, Cardinality(targetKeywords))

(***************************************************************************)
(* Result Ranker (scrapeSearchResults, after page.evaluate)                *)
(***************************************************************************)
\* -1, 0 or 1 as a/b is below, equal to or above c/d (a, c >= 0; b, d > 0);
\* compared by integer parts and remainders, so no product of two
\* denominators is formed
RECURSIVE FracCmp(_, _, _, _)
FracCmp(a, b, c, d) ==
    LET qa == a \div b
        qc == c \div d
        ra == a % b
        rc == c % d
    IN IF qa # qc THEN (IF qa < qc THEN 0 - 1 ELSE 1)
       ELSE IF ra = 0 /\ rc = 0 THEN 0
       ELSE IF ra = 0 THEN 0 - 1
       ELSE IF rc = 0 THEN 1
       ELSE FracCmp(d, rc, b, ra)

ScoreGe(x, y) == FracCmp(x[1], x[2], y[1], y[2]) >= 0
ScoreGt(x, y) == FracCmp(x[1], x[2], y[1], y[2]) > 0

\* if (referencePrice && referencePrice > 0)
HasReference(referencePrice) == referencePrice # NullPrice /\ referencePrice > 0

\* priceScore of one result, as a fraction
priceScore(price, referencePrice) ==
    IF ~HasReference(referencePrice) THEN Frac(1, 2)
    ELSE IF 2 * price >= referencePrice /\ 2 * price <= 3 * referencePrice
         THEN Frac(referencePrice - Abs(referencePrice - price), referencePrice)
    ELSE IF 2 * price < referencePrice THEN Frac(1, 5)
    ELSE Frac(3, 10)

\* 1 - position * 0.05
positionScore(position) == Frac(20 - position, 20)

THRESHOLD_NUM == 3
THRESHOLD_DEN == 10

\* totalScore = titleSimilarity*0.4 + keywordScore*0.3 + positionScore*0.2
\*              + priceScore*0.1, over the common denominator
totalScore(targetProductName, referencePrice, r) ==
    LET ts == calculateSimilarity(targetProductName, r.title)
        ks == calculateKeywordScore(targetProductName, r.title)
        ps == positionScore(r.position)
        pr == priceScore(r.price, referencePrice)
        den == ts[2] * ks[2] * ps[2] * pr[2]
    IN Frac(4 * ts[1] * ks[2] * ps[2] * pr[2]
            + 3 * ks[1] * ts[2] * ps[2] * pr[2]
            + 2 * ps[1] * ts[2] * ks[2] * pr[2]
            + 1 * pr[1] * ts[2] * ks[2] * ps[2],
            10 * den)

\* results.map(result => ({...result, score: totalScore}))
RECURSIVE scoresOf(_, _, _, _)
scoresOf(targetProductName, referencePrice, results, acc) ==
    IF Len(acc) = Len(results) THEN acc
    ELSE scoresOf(targetProductName, referencePrice, results,
                  Append(acc, totalScore(targetProductName, referencePrice,
                                         results[Len(acc) + 1])))

\* variant: the first result is taken without sorting
bestIndexUnsorted(scores) == 1

\* scoredResults.sort((a, b) => b.score - a.score)[0]: the sort is stable, so
\* the first result of maximal score
bestIndex(scores) ==
    CHOOSE i \in 1..Len(scores) :
        /\ \A j \in 1..Len(scores) : ScoreGe(scores[i], scores[j])
        /\ \A j \in 1..(i - 1) : ScoreGt(scores[i], scores[j])

\* variant: only a score of 0.8 or more is accepted
AcceptScoreHigh(score) == ScoreGe(score, Frac(8, 10))

\* variant: the threshold is 0.1
AcceptScoreLow(score) == ScoreGe(score, Frac(1, THRESHOLD_DEN))

\* if (bestMatch.score >= 0.3)
AcceptScore(score) == ScoreGe(score, Frac(THRESHOLD_NUM, THRESHOLD_DEN))

\* what scrapeSearchResults returns for the results page.evaluate extracted
rankResults(results, targetProductName, referencePrice, expectedCurrency) ==
    IF Len(results) = 0 THEN NoResult
    ELSE LET scores == scoresOf(targetProductName, referencePrice, results, <<>>)
             best == bestIndex(scores)
             bestMatch == results[best]
             score == scores[best]
         IN IF AcceptScore(score)
            THEN [found |-> TRUE, price |-> bestMatch.price,
                  currency |-> expectedCurrency, title |-> bestMatch.title]
            ELSE NoResult

(***************************************************************************)
(* Store Directory                                                         *)
(***************************************************************************)
Store(n, site) == [name |-> n, site |-> site]

STORE_CONFIGS ==
    [c \in {"USD", "GBP", "EUR", "CAD", "AUD"} |->
        CASE c = "USD" -> << Store("Amazon", "www.amazon.com/s?k="),
                             Store("eBay", "www.ebay.com/sch/i.html?_nkw="),
                             Store("Walmart", "www.walmart.com/search?q="),
                             Store("Target", "www.target.com/s?searchTerm="),
                             Store("Best Buy", "www.bestbuy.com/site/searchpage.jsp?st=") >>
          [] c = "GBP" -> << Store("Amazon", "www.amazon.co.uk/s?k="),
                             Store("eBay", "www.ebay.co.uk/sch/i.html?_nkw="),
                             Store("Argos", "www.argos.co.uk/search/"),
                             Store("John Lewis", "www.johnlewis.com/search?search-term="),
                             Store("PriceRunner", "www.pricerunner.com/results?q=") >>
          [] c = "EUR" -> << Store("Amazon", "www.amazon.de/s?k="),
                             Store("eBay", "www.ebay.de/sch/i.html?_nkw="),
                             Store("Idealo", "www.idealo.de/preisvergleich/MainSearchProductCategory.html?q="),
                             Store("MediaMarkt", "www.mediamarkt.de/de/search.html?query=") >>
          [] c = "CAD" -> << Store("Amazon", "www.amazon.ca/s?k="),
                             Store("eBay", "www.ebay.ca/sch/i.html?_nkw="),
                             Store("Best Buy CA", "www.bestbuy.ca/en-ca/search?search="),
                             Store("Walmart CA", "www.walmart.ca/search?q=") >>
          [] c = "AUD" -> << Store("Amazon", "www.amazon.com.au/s?k="),
                             Store("eBay", "www.ebay.com.au/sch/i.html?_nkw="),
                             Store("Kogan", "www.kogan.com/au/search/?q="),
                             Store("JB Hi-Fi", "www.jbhifi.com.au/search?q=") >> ]

getStoresForCurrency(currency) ==
    IF currency \in DOMAIN STORE_CONFIGS THEN STORE_CONFIGS[currency]
    ELSE STORE_CONFIGS["USD"]

\* store.searchUrl(q): the store's search address with the query appended
searchUrlOf(store, q) == [site |-> store.site, query |-> q]

(***************************************************************************)
(* Working name and currency of a product                                  *)
(***************************************************************************)
\* the currency the host name implies, or the given one
currencyFromHost(hostname, currency) ==
    IF includes(hostname, <<".","c","o",".","u","k">>) THEN "GBP"
    ELSE IF \/ includes(hostname, <<".","d","e">>)
            \/ includes(hostname, <<".","f","r">>)
            \/ includes(hostname, <<".","i","t">>)
            \/ includes(hostname, <<".","e","s">>) THEN "EUR"
    ELSE IF includes(hostname, <<".","c","a">>) THEN "CAD"
    ELSE IF includes(hostname, <<".","c","o","m",".","a","u">>) THEN "AUD"
    ELSE currency

\* p.replace(/[-_]/g, ' ').trim()
slugToName(p) ==
    trim(AsSeq([i \in 1..Len(p) |-> IF p[i] \in {"-", "_"} THEN " " ELSE p[i]], Len(p)))

\* url.pathname.split('/').filter(p => p && p.length > 0)
pathPartsOf(url) == SelectSeq(url.path, LAMBDA p : Len(p) > 0)

\* pathParts.findIndex(p => p === 'dp'), 1-based, 0 when absent
dpIndexOf(pathParts) ==
    IF \E i \in 1..Len(pathParts) : pathParts[i] = <<"d","p">>
    THEN CHOOSE i \in 1..Len(pathParts) :
            /\ pathParts[i] = <<"d","p">>
            /\ \A j \in 1..(i - 1) : pathParts[j] # <<"d","p">>
    ELSE 0

IsWorkerSlug(p) == Len(p) > 5 /\ includes(p, <<"-">>)

\* the name runPriceCheck derives from the URL path, or the given name
nameFromUrl(url, name) ==
    LET pathParts == pathPartsOf(url)
        dpIndex == dpIndexOf(pathParts)
        slugs == SelectSeq(pathParts, IsWorkerSlug)
    IN IF dpIndex > 1 THEN slugToName(pathParts[dpIndex - 1])
       ELSE IF Len(slugs) > 0 THEN slugToName(slugs[1])
       ELSE name

\* productName.toLowerCase().startsWith('scraping') || productName.length < 5
IsPlaceholderName(name) ==
    \/ startsWith(toLowerCase(name), <<"s","c","r","a","p","i","n","g">>)
    \/ Len(name) < 5

\* lines 674-699 of runPriceCheck: the working name and currency
resolveCurrency(product) ==
    LET stored == IF product.currency = "" THEN "USD" ELSE product.currency
    IN IF product.url.valid THEN currencyFromHost(product.url.hostname, stored)
       ELSE stored

resolveName(product) ==
    IF product.url.valid /\ IsPlaceholderName(product.name)
    THEN nameFromUrl(product.url, product.name)
    ELSE product.name

\* lines 714-720: the name written back
finalNameOf(product, productName, result) ==
    IF result.title # <<>> /\ Len(result.title) > 5 THEN result.title
    ELSE IF productName # <<>> /\ productName # product.name THEN productName
    ELSE product.name

(***************************************************************************)
(* Search query of scrapeComparisonPrices                                  *)
(***************************************************************************)
sizeClassWords ==
    { <<"s","m","a","l","l">>, <<"m","e","d","i","u","m">>, <<"l","a","r","g","e">>,
      <<"x","l">>, <<"x","x","l">>, <<"x","s">> }

\* the maximal runs of \w characters of a string, in order
RECURSIVE wordRunsAcc(_, _, _)
wordRunsAcc(s, cur, acc) ==
    IF s = <<>> THEN (IF cur = <<>> THEN acc ELSE Append(acc, cur))
    ELSE IF IsWordChar(Head(s)) THEN wordRunsAcc(Tail(s), Append(cur, Head(s)), acc)
    ELSE wordRunsAcc(Tail(s), <<>>, IF cur = <<>> THEN acc ELSE Append(acc, cur))
wordRuns(s) == wordRunsAcc(s, <<>>, <<>>)

HasDigit(s) == \E i \in 1..Len(s) : s[i] \in DigitChars

\* extractProductSpecs(name).specs.  The size, storage and screen patterns
\* each need a digit; the names of this model have none, so what is left is
\* the whole-word size classes (/\b(small|medium|large|xl|xxl|xs)\b/gi).
extractProductSpecs(name) ==
    SelectSeq(wordRuns(name), LAMBDA w : toLowerCase(w) \in sizeClassWords)

queryStopWords ==
    { <<"w","i","t","h">>, <<"t","h","e">>, <<"a","n","d">>, <<"f","o","r">>,
      <<"f","r","o","m">> }

IsQueryWord(w) == Len(w) > 2 /\ toLowerCase(w) \notin queryStopWords

MAX_KEYWORDS == 5

\* lines 545-557: the search query built from the product name
cleanQueryOf(productName) ==
    LET words == SelectSeq(splitWs(trim(replaceNonWord(productName))), IsQueryWord)
        keyWords == SubSeq(words, 1, Min(MAX_KEYWORDS, Len(words)))
        specs == extractProductSpecs(productName)
        specTerms == SelectSeq(specs, LAMBDA sp :
                        ~\E i \in 1..Len(keyWords) :
                            includes(toLowerCase(keyWords[i]), toLowerCase(sp)))
    IN joinSpace(keyWords \o specTerms)

(***************************************************************************)
(* Dashboard: the handlers that create product rows                        *)
(***************************************************************************)
reservedSegments ==
    { <<"p","r","o","d","u","c","t">>, <<"i","t","e","m">>, <<"s">>,
      <<"s","e","a","r","c","h">>, <<"s","c","h">>, <<"p">>, <<"b","u","y">>,
      <<"s","h","o","p">> }

IsTrackingSlug(p) ==
    Len(p) > 5 /\ includes(p, <<"-">>) /\ toLowerCase(p) \notin reservedSegments

IsAllDigits(p) == Len(p) > 0 /\ \A i \in 1..Len(p) : p[i] \in DigitChars

\* hostname.replace('www.', '').split('.')[0]
RECURSIVE replaceFirst(_, _)
replaceFirst(s, w) ==
    IF Len(s) < Len(w) THEN s
    ELSE IF SubSeq(s, 1, Len(w)) = w THEN SubSeq(s, Len(w) + 1, Len(s))
    ELSE <<Head(s)>> \o replaceFirst(Tail(s), w)
storeLabelOf(hostname) == split(replaceFirst(hostname, <<"w","w","w",".">>), ".")[1]

\* s.charAt(0).toUpperCase() + s.slice(1)
capitalizeFirst(s) == IF s = <<>> THEN s ELSE <<toUpperChar(s[1])>> \o Tail(s)

\* s.replace(/\b\w/g, c => c.toUpperCase())
capitalizeWords(s) ==
    AsSeq([i \in 1..Len(s) |->
              IF IsWordChar(s[i]) /\ (i = 1 \/ ~IsWordChar(s[i - 1]))
              THEN toUpperChar(s[i]) ELSE s[i]],
          Len(s))

\* the name handleStartTracking (product-input-modal.tsx) stores
trackingNameOf(url) ==
    LET pathParts == pathPartsOf(url)
        dpIndex == dpIndexOf(pathParts)
        slugs == SelectSeq(pathParts, IsTrackingSlug)
        ids == SelectSeq(pathParts, IsAllDigits)
        raw == IF dpIndex > 1 THEN slugToName(pathParts[dpIndex - 1])
               ELSE IF Len(slugs) > 0 THEN slugToName(slugs[1])
               ELSE IF Len(ids) > 0
                    THEN capitalizeFirst(storeLabelOf(url.hostname)) \o <<" ","#">> \o ids[1]
               ELSE <<"P","e","n","d","i","n","g",".",".",".">>
    IN capitalizeWords(raw)

\* the temporary name the other handleStartTracking stores
scrapingNameOf(url) ==
    <<"S","c","r","a","p","i","n","g",":"," ">>
        \o capitalizeFirst(storeLabelOf(url.hostname)) \o <<".",".",".">>

(***************************************************************************)
(* The inputs the model draws from                                         *)
(***************************************************************************)
URL_AMAZON ==
    [valid |-> TRUE,
     hostname |-> <<"w","w","w",".","a","m","a","z","o","n",".","c","o","m">>,
     path |-> << <<"S","o","n","y","-","B","u","d","s">>, <<"d","p">>, <<"B","x","x">> >>]
URL_OTTO ==
    [valid |-> TRUE,
     hostname |-> <<"w","w","w",".","o","t","t","o",".","d","e">>,
     path |-> << <<"p">> >>]
\* the URLs pasted into the two dialogs
TrackingUrls == {URL_OTTO}
ScrapingUrls == {URL_AMAZON}

T_SONY == <<"S","o","n","y"," ","B","u","d","s">>
T_MATCH == <<"S","o","n","y"," ","B","u","d","s"," ","B","l","a","c","k">>
T_JUNK == <<"H","o","s","e">>
NoTitle == <<>>

\* what page.evaluate of scrapeWithPuppeteer can return: null, a title with
\* price 0 (no price text parsed into the band), or a price with or without
\* a title
OwnPages ==
    { NoResult,
      [found |-> TRUE, price |-> 0, title |-> T_SONY],
      [found |-> TRUE, price |-> 2, title |-> T_SONY],
      [found |-> TRUE, price |-> 3, title |-> NoTitle] }

\* what page.evaluate of scrapeSearchResults can return: the results that
\* had both a title and a price in the band
SearchPages ==
    { <<>>,
      << [title |-> T_MATCH, price |-> 2, position |-> 0] >>,
      << [title |-> T_JUNK, price |-> 9, position |-> 6] >>,
      << [title |-> T_JUNK, price |-> 9, position |-> 3],
         [title |-> T_MATCH, price |-> 2, position |-> 4] >> }

(***************************************************************************)
(* State                                                                   *)
(***************************************************************************)
VARIABLES
    products_tbl,       \* table products of the persisted store
    price_history,      \* table price_history
    comparison_prices,  \* table comparison_prices
    pc,                 \* where runPriceCheck stands
    runs,               \* worker runs started so far
    now,                \* the clock new Date() reads
    products,           \* runPriceCheck: the rows read at the start of the run
    idx,                \* runPriceCheck: position in products
    productName,        \* runPriceCheck: let productName
    productCurrency,    \* runPriceCheck: let productCurrency
    result,             \* runPriceCheck: const result
    cleanQuery,         \* scrapeComparisonPrices: const cleanQuery
    sidx,               \* scrapeComparisonPrices: position in stores
    searchUrl,          \* scrapeComparisonPrices: const searchUrl
    fpc,                \* where the running fetch call stands
    fmode,              \* which fetch call runs: "own" or "search"
    browser,            \* the fetch call's let browser is set
    sessions,           \* browser sessions launched and not yet closed
    fret,               \* the value the fetch call is about to return
    exitPath,           \* how the last fetch call left its try block
    log,                \* what the worker did for the current product
    console,            \* console.error / console.warn lines of the current product
    call,               \* a function of the worker called on its own: name, argument, value
    cycles,             \* products the runs so far were started for
    faults,             \* failures of the environment so far
    listings            \* search fetches that returned a match so far

dbVars == <<products_tbl, price_history, comparison_prices>>
loopVars == <<products, idx, productName, productCurrency, result>>
cmpVars == <<cleanQuery, sidx, searchUrl>>
fetchVars == <<fpc, fmode, browser, sessions, fret, exitPath>>
workerVars == <<products_tbl, price_history, comparison_prices, pc, runs, now,
                products, idx, productName, productCurrency, result,
                cleanQuery, sidx, searchUrl, fpc, fmode, browser, sessions, fret,
                exitPath, log, console, cycles, faults, listings>>
vars == <<products_tbl, price_history, comparison_prices, pc, runs, now,
          products, idx, productName, productCurrency, result,
          cleanQuery, sidx, searchUrl, fpc, fmode, browser, sessions, fret,
          exitPath, log, console, call, cycles, faults, listings>>


NoUrl == [site |-> "", query |-> <<>>]
Event(op, key, val, ok) == [op |-> op, key |-> key, val |-> val, ok |-> ok]
\* one console.error or console.warn call, named by what it reports
ConsoleLine(level, what) == [level |-> level, what |-> what]

\* a call of the environment fails: at most MaxFaults times in a behaviour
Fails == faults < MaxFaults /\ faults' = faults + 1 /\ UNCHANGED listings
Succeeds == UNCHANGED <<faults, listings>>

(***************************************************************************)
(* The persisted store                                                     *)
(***************************************************************************)
\* supabase.from('products').insert(row)
insertProduct(tbl, name, url, currency, status) ==
    Append(tbl, [id |-> Len(tbl) + 1, name |-> name, url |-> url,
                 current_price |-> 0, currency |-> currency, status |-> status,
                 last_checked |-> 0])

\* variant: the update leaves the status column out
updateTrackingKeepsStatus(tbl, id, name, currency, price, t) ==
    [i \in 1..Len(tbl) |->
        IF tbl[i].id = id
        THEN [tbl[i] EXCEPT !.name = name, !.currency = currency,
                            !.current_price = price, !.last_checked = t]
        ELSE tbl[i]]

\* .update({name, currency, current_price, last_checked, status: 'tracking'}).eq('id', id)
updateTracking(tbl, id, name, currency, price, t) ==
    [i \in 1..Len(tbl) |->
        IF tbl[i].id = id
        THEN [tbl[i] EXCEPT !.name = name, !.currency = currency,
                            !.current_price = price, !.last_checked = t,
                            !.status = "tracking"]
        ELSE tbl[i]]

\* variant: the status write is dropped
updateStatusDropped(tbl, id, status) == tbl

\* variant: the status write also clears the price
updateStatusClearsPrice(tbl, id, status) ==
    [i \in 1..Len(tbl) |->
        IF tbl[i].id = id THEN [tbl[i] EXCEPT !.status = status, !.current_price = 0]
        ELSE tbl[i]]

\* .update({ status }).eq('id', id)
updateStatus(tbl, id, status) ==
    [i \in 1..Len(tbl) |->
        IF tbl[i].id = id THEN [tbl[i] EXCEPT !.status = status] ELSE tbl[i]]

\* variant: the insert replaces the rows of the table
insertHistoryReplaces(tbl, id, price, currency, t) ==
    << [product_id |-> id, price |-> price, currency |-> currency,
        source |-> "price_worker_automation", recorded_at |-> t] >>

\* supabase.from('price_history').insert(row)
insertHistory(tbl, id, price, currency, t) ==
    Append(tbl, [product_id |-> id, price |-> price, currency |-> currency,
                 source |-> "price_worker_automation", recorded_at |-> t])

SameKey(row, id, storeName) == row.product_id = id /\ row.store_name = storeName

\* the price the row of this key holds, AbsentRow when there is no such row
AbsentRow == 0 - 2
priorPrice(tbl, id, storeName) ==
    IF \E i \in 1..Len(tbl) : SameKey(tbl[i], id, storeName)
    THEN tbl[CHOOSE i \in 1..Len(tbl) : SameKey(tbl[i], id, storeName)].price
    ELSE AbsentRow

\* variant: a plain insert instead of the keyed upsert
upsertComparisonInsert(tbl, id, storeName, url, price, currency, hasCurrency, t, available) ==
    Append(tbl, [product_id |-> id, store_name |-> storeName,
                 store_url |-> url, price |-> price,
                 currency |-> IF hasCurrency THEN currency ELSE "",
                 last_checked |-> t, is_available |-> available])

\* variant: on conflict a null price leaves the price and availability columns
upsertComparisonKeepsPrice(tbl, id, storeName, url, price, currency, hasCurrency, t, available) ==
    IF \E i \in 1..Len(tbl) : SameKey(tbl[i], id, storeName)
    THEN [i \in 1..Len(tbl) |->
            IF SameKey(tbl[i], id, storeName)
            THEN [tbl[i] EXCEPT !.store_url = url,
                                !.price = IF price = NullPrice THEN @ ELSE price,
                                !.currency = IF hasCurrency THEN currency ELSE @,
                                !.last_checked = t,
                                !.is_available = IF price = NullPrice THEN @ ELSE available]
            ELSE tbl[i]]
    ELSE Append(tbl, [product_id |-> id, store_name |-> storeName,
                      store_url |-> url, price |-> price,
                      currency |-> IF hasCurrency THEN currency ELSE "",
                      last_checked |-> t, is_available |-> available])

\* .upsert(row, { onConflict: 'product_id,store_name' }): the row with the
\* same key takes the columns sent, otherwise the row is added
upsertComparison(tbl, id, storeName, url, price, currency, hasCurrency, t, available) ==
    IF \E i \in 1..Len(tbl) : SameKey(tbl[i], id, storeName)
    THEN [i \in 1..Len(tbl) |->
            IF SameKey(tbl[i], id, storeName)
            THEN [tbl[i] EXCEPT !.store_url = url, !.price = price,
                                !.currency = IF hasCurrency THEN currency ELSE @,
                                !.last_checked = t, !.is_available = available]
            ELSE tbl[i]]
    ELSE Append(tbl, [product_id |-> id, store_name |-> storeName,
                      store_url |-> url, price |-> price,
                      currency |-> IF hasCurrency THEN currency ELSE "",
                      last_checked |-> t, is_available |-> available])

\* the worker before its first run, no row in any table
WorkerInit ==
    /\ products_tbl = <<>>
    /\ price_history = <<>>
    /\ comparison_prices = <<>>
    /\ pc = "idle"
    /\ runs = 0
    /\ now = 1
    /\ products = <<>>
    /\ idx = 0
    /\ productName = <<>>
    /\ productCurrency = ""
    /\ result = NoResult
    /\ cleanQuery = <<>>
    /\ sidx = 0
    /\ searchUrl = NoUrl
    /\ fpc = "none"
    /\ fmode = "none"
    /\ browser = FALSE
    /\ sessions = 0
    /\ fret = NoResult
    /\ exitPath = ""
    /\ log = <<>>
    /\ console = <<>>
    /\ cycles = 0
    /\ faults = 0
    /\ listings = 0

NoCall == [fn |-> "none"]

Init == WorkerInit /\ call = NoCall

WorkerIdle == pc \in {"idle", "done", "crashed", "exited"}

\* a row may be added while a later run can still process it
CanAddProduct ==
    /\ WorkerIdle
    /\ Len(products_tbl) < MaxProducts
    /\ runs < MaxRuns
    /\ cycles + Len(products_tbl) + 1 <= MaxCycles

(***************************************************************************)
(* Dashboard actions                                                       *)
(***************************************************************************)
\* product-input-modal.tsx, handleStartTracking: a queued row with price 0.
\* The worker reads the table once per run, so a row added during a run acts
\* as one added right after it: rows are added between runs, and only while
\* a later run can still process them.
handleStartTracking ==
    /\ CanAddProduct
    /\ \E url \in TrackingUrls :
          products_tbl' = insertProduct(products_tbl, trackingNameOf(url), url,
                                        currencyFromHost(url.hostname, "USD"), "queued")
    /\ UNCHANGED <<price_history, comparison_prices, pc, runs, now, loopVars,
                   cmpVars, fetchVars, log, faults, listings>>
    /\ UNCHANGED <<cycles, console, call>>

\* the other handleStartTracking: a row in status 'scraping' under a
\* temporary name, currency USD, price 0
handleStartTrackingScraping ==
    /\ CanAddProduct
    /\ \E url \in ScrapingUrls :
          products_tbl' = insertProduct(products_tbl, scrapingNameOf(url), url,
                                        "USD", "scraping")
    /\ UNCHANGED <<price_history, comparison_prices, pc, runs, now, loopVars,
                   cmpVars, fetchVars, log, faults, listings>>
    /\ UNCHANGED <<cycles, console, call>>

(***************************************************************************)
(* Page Fetcher: scrapeWithPuppeteer ("own") and scrapeSearchResults       *)
(* ("search") share the same try / catch / finally skeleton                *)
(***************************************************************************)
CurrentStore == getStoresForCurrency(productCurrency)[sidx]

\* variant: the finally block does not close the browser
closeSessionLeak(n) == n

\* browser.close() settled: the session is gone.  (When close() rejects the
\* launcher has already killed the browser process.)
closeSession(n) == n - 1

\* the fetch call returns val to its caller
FetchReturn(val) ==
    /\ fpc' = "none"
    /\ browser' = FALSE
    /\ IF fmode = "own"
       THEN /\ result' = val
            /\ fret' = NoResult
            /\ pc' = "own_ret"
       ELSE /\ fret' = val
            /\ pc' = "store_ret"
            /\ UNCHANGED result
    /\ UNCHANGED <<sidx, log>>

\* variant: the try / catch of scrapeComparisonPrices wraps the whole loop, so
\* a throw ends the comparison pass
FetchThrowEndsLoop ==
    /\ fpc' = "none"
    /\ browser' = FALSE
    /\ fret' = NoResult
    /\ IF fmode = "own"
       THEN /\ pc' = "crashed"
            /\ UNCHANGED <<sidx, log, console>>
       ELSE /\ pc' = "cmp"
            /\ sidx' = Len(getStoresForCurrency(productCurrency)) + 1
            /\ log' = Append(log, Event("store_error", CurrentStore.name, 0, FALSE))
            /\ console' = Append(console, ConsoleLine("error", "store_error"))
    /\ UNCHANGED result

\* the fetch call throws.  runPriceCheck has no handler: the run ends with an
\* unhandled rejection.  scrapeComparisonPrices catches per store (line 616),
\* logs, and goes on with the next store without the delay of line 615.
FetchThrow ==
    /\ fpc' = "none"
    /\ browser' = FALSE
    /\ fret' = NoResult
    /\ IF fmode = "own"
       THEN /\ pc' = "crashed"
            /\ UNCHANGED <<sidx, log, console>>
       ELSE /\ pc' = "cmp"
            /\ sidx' = sidx + 1
            /\ log' = Append(log, Event("store_error", CurrentStore.name, 0, FALSE))
            /\ console' = Append(console, ConsoleLine("error", "store_error"))
    /\ UNCHANGED result

\* browser = await puppeteer.launch(...)
puppeteerLaunch ==
    /\ fpc = "launch"
    /\ \/ /\ Succeeds
          /\ browser' = TRUE
          /\ sessions' = sessions + 1
          /\ fpc' = "evaluate"
          /\ UNCHANGED <<pc, result, fret, exitPath, sidx, log, console>>
       \/ /\ Fails          \* caught: return null; finally finds no browser
          /\ exitPath' = "launch_error"
          /\ console' = Append(console, ConsoleLine("error", "scrape_failed"))
          /\ FetchReturn(NoResult)
          /\ UNCHANGED sessions
    /\ UNCHANGED <<dbVars, runs, now, products, idx, productName, productCurrency,
                   cleanQuery, searchUrl, fmode>>
    /\ UNCHANGED <<cycles, call>>

\* variant: a title without a price is returned as a result
ownResultKeepsTitle(scrapeData, expectedCurrency) ==
    IF scrapeData.found
    THEN [found |-> TRUE, price |-> scrapeData.price,
          currency |-> expectedCurrency, title |-> scrapeData.title]
    ELSE NoResult

\* lines 432-435: what scrapeWithPuppeteer makes of scrapeData
ownResult(scrapeData, expectedCurrency) ==
    IF scrapeData.found /\ scrapeData.price > 0
    THEN [found |-> TRUE, price |-> scrapeData.price,
          currency |-> expectedCurrency, title |-> scrapeData.title]
    ELSE NoResult

\* the rest of the try block: newPage, setUserAgent, setViewport, goto,
\* waitForSelector (its timeout is swallowed), the 2 s wait, page.evaluate and
\* what is made of its value.  A navigation error or timeout and an
\* extraction error are caught alike: return null.  ownPages and searchPages
\* are what the pages visited can yield, maxListings the matches a behaviour
\* may hold.
pageEvaluateFrom(ownPages, searchPages, maxListings) ==
    /\ fpc = "evaluate"
    /\ \/ /\ fmode = "own"
          /\ Succeeds
          /\ \E scrapeData \in ownPages :
                /\ fret' = ownResult(scrapeData, productCurrency)
                /\ exitPath' = IF ~scrapeData.found THEN "no_price"
                                ELSE IF scrapeData.price > 0 THEN "price" ELSE "title_only"
          /\ UNCHANGED console
       \/ /\ fmode = "search"
          /\ UNCHANGED faults
          /\ \E results \in searchPages :
                /\ fret' = rankResults(results, productName, result.price,
                                      productCurrency)
                /\ listings' = IF fret'.found THEN listings + 1 ELSE listings
                /\ listings' <= maxListings
                /\ exitPath' = IF fret'.found THEN "match"
                                ELSE IF results = <<>> THEN "empty" ELSE "below"
          /\ UNCHANGED console
       \/ /\ Fails
          /\ fret' = NoResult
          /\ exitPath' = "error"
          /\ console' = Append(console, ConsoleLine("error", "scrape_failed"))
    /\ fpc' = "finally"
    /\ UNCHANGED <<dbVars, pc, runs, now, loopVars, cmpVars, fmode, browser,
                   sessions, log>>
    /\ UNCHANGED <<cycles, call>>

pageEvaluate == pageEvaluateFrom(OwnPages, SearchPages, MaxListings)

\* finally { if (browser) await browser.close() }
browserClose ==
    /\ fpc = "finally"
    /\ browser
    /\ sessions' = closeSession(sessions)
    /\ \/ /\ Succeeds
          /\ FetchReturn(fret)
          /\ UNCHANGED <<exitPath, console>>
       \/ /\ Fails          \* close() rejects: the rejection leaves the call
          /\ exitPath' = "close_error"
          /\ FetchThrow
    /\ UNCHANGED <<dbVars, runs, now, products, idx, productName, productCurrency,
                   cleanQuery, searchUrl, fmode>>
    /\ UNCHANGED <<cycles, call>>

(***************************************************************************)
(* Price-Check Orchestrator: runPriceCheck and scrapeComparisonPrices      *)
(***************************************************************************)
NullUrl == [valid |-> FALSE, hostname |-> <<>>, path |-> <<>>, isNull |-> TRUE]

\* a JavaScript number or null used as a condition
Truthy(n) == n # NullPrice /\ n # 0

\* table user_settings (settings.tsx saves it): the owner of the products of
\* this model has a webhook configured.  The worker never reads the table.
user_settings == [discord_webhook |-> "https://discord.com/api/webhooks/1"]

\* lines 622-652: the POST sendDiscordNotification makes, as an entry of the
\* worker's log.  No line of the worker calls the function.
sendDiscordNotification(webhookUrl, product, oldPrice, newPrice) ==
    Event("webhook", webhookUrl,
          [old |-> oldPrice, new |-> newPrice, savings |-> oldPrice - newPrice], TRUE)

\* variant: a row is appended on every check
shouldAppendHistoryAlways(oldPrice, newPrice) == TRUE

\* lines 739 and 750: the two branches that insert a price_history row
shouldAppendHistory(oldPrice, newPrice) ==
    \/ Truthy(oldPrice) /\ newPrice < oldPrice
    \/ Truthy(oldPrice) /\ newPrice > oldPrice

StartFetch(mode) ==
    /\ fmode' = mode
    /\ fpc' = "launch"
    /\ browser' = FALSE
    /\ fret' = NoResult
    /\ exitPath' = ""
    /\ UNCHANGED sessions

\* lines 8-14: the process starts with or without its two credentials
Environments == {[SUPABASE_URL |-> u, SUPABASE_SERVICE_ROLE_KEY |-> k] :
                    u \in {"", "url"}, k \in {"", "key"}}
credentialsPresent(env) == env.SUPABASE_URL # "" /\ env.SUPABASE_SERVICE_ROLE_KEY # ""

\* one start of the worker process: lines 8-16, then lines 660-670 of
\* runPriceCheck, the read of the products that have a URL
startRun ==
    /\ WorkerIdle
    /\ runs < MaxRuns
    /\ cycles + Len(products_tbl) <= MaxCycles
    /\ cycles' = cycles + Len(products_tbl)
    /\ runs' = runs + 1
    /\ now' = now + 1
    /\ \E env \in Environments :
          IF credentialsPresent(env)
          THEN \/ /\ Succeeds
                  /\ products' = SelectSeq(products_tbl, LAMBDA r : r.url # NullUrl)
                  /\ pc' = "loop"
                  /\ console' = <<>>
               \/ /\ Fails          \* if (error) return
                  /\ products' = <<>>
                  /\ pc' = "done"
                  /\ console' = <<ConsoleLine("error", "fetch_products")>>
          ELSE /\ Fails              \* process.exit(1)
               /\ products' = <<>>
               /\ pc' = "exited"
               /\ console' = <<ConsoleLine("error", "credentials")>>
    /\ idx' = 1
    /\ productName' = <<>>
    /\ productCurrency' = ""
    /\ result' = NoResult
    /\ cleanQuery' = <<>>
    /\ sidx' = 0
    /\ searchUrl' = NoUrl
    /\ log' = <<>>
    /\ UNCHANGED <<dbVars, fetchVars, call>>

\* lines 672-706: next product, working name and currency, own-page fetch
nextProduct ==
    /\ pc = "loop"
    /\ idx <= Len(products)
    /\ productName' = resolveName(products[idx])
    /\ productCurrency' = resolveCurrency(products[idx])
    /\ result' = NoResult
    /\ now' = now + 1
    /\ log' = <<Event("fetch", "own", 0, TRUE)>>
    /\ StartFetch("own")
    /\ pc' = "own_fetch"
    /\ UNCHANGED <<dbVars, runs, products, idx, cmpVars, faults, listings>>
    /\ console' = <<>>
    /\ UNCHANGED <<cycles, call>>

\* lines 779-781: the loop is over
runComplete ==
    /\ pc = "loop"
    /\ idx > Len(products)
    /\ pc' = "done"
    /\ UNCHANGED <<dbVars, runs, now, loopVars, cmpVars, fetchVars, log, faults, listings>>
    /\ UNCHANGED <<cycles, console, call>>

\* lines 708-737: write the product row after a successful own-page scrape
updateProduct ==
    /\ pc = "own_ret"
    /\ result.found
    /\ LET product == products[idx]
           finalName == finalNameOf(product, productName, result)
           row == [name |-> finalName, currency |-> productCurrency,
                   current_price |-> result.price, last_checked |-> now,
                   status |-> "tracking"]
       IN /\ \/ /\ Succeeds
                /\ products_tbl' = updateTracking(products_tbl, product.id, finalName,
                                                  productCurrency, result.price, now)
                /\ log' = Append(log, Event("update", "products", row, TRUE))
             \/ /\ Fails
                /\ UNCHANGED products_tbl
                /\ log' = Append(log, Event("update", "products", row, FALSE))
          /\ productName' = finalName
    /\ pc' = "history"
    /\ exitPath' = ""
    /\ UNCHANGED <<price_history, comparison_prices, runs, now, products, idx,
                   productCurrency, result, cmpVars, fpc, fmode, browser, sessions,
                   fret>>
    /\ UNCHANGED <<cycles, console, call>>

\* lines 739-765: the price_history insert, then the synchronous start of
\* scrapeComparisonPrices (lines 540-564)
appendHistory ==
    /\ pc = "history"
    /\ LET product == products[idx]
           oldPrice == product.current_price
           newPrice == result.price
       IN IF shouldAppendHistory(oldPrice, newPrice)
          THEN \/ /\ Succeeds
                  /\ price_history' = insertHistory(price_history, product.id,
                                                    newPrice, productCurrency, now)
                  /\ log' = Append(log, Event("history", "price_history", newPrice, TRUE))
               \/ /\ Fails
                  /\ UNCHANGED price_history
                  /\ log' = Append(log, Event("history", "price_history", newPrice, FALSE))
          ELSE UNCHANGED <<price_history, log, faults, listings>>
    /\ cleanQuery' = cleanQueryOf(productName)
    /\ sidx' = 1
    /\ pc' = "cmp"
    /\ UNCHANGED <<products_tbl, comparison_prices, runs, now, loopVars, searchUrl,
                   fetchVars>>
    /\ UNCHANGED <<cycles, console, call>>

\* lines 766-773: the own-page scrape gave no result
markFailed ==
    /\ pc = "own_ret"
    /\ ~result.found
    /\ \/ /\ Succeeds
          /\ products_tbl' = updateStatus(products_tbl, products[idx].id, "scrape_failed")
          /\ log' = Append(log, Event("mark_failed", "products", 0, TRUE))
       \/ /\ Fails
          /\ UNCHANGED products_tbl
          /\ log' = Append(log, Event("mark_failed", "products", 0, FALSE))
    /\ pc' = "prod_delay"
    /\ exitPath' = ""
    /\ UNCHANGED <<price_history, comparison_prices, runs, now, loopVars, cmpVars,
                   fpc, fmode, browser, sessions, fret>>
    /\ console' = Append(console, ConsoleLine("warn", "skip_comparisons"))
    /\ UNCHANGED <<cycles, call>>

\* lines 566-581: next store, its search URL, the search fetch
nextStore ==
    /\ pc = "cmp"
    /\ sidx <= Len(getStoresForCurrency(productCurrency))
    /\ searchUrl' = searchUrlOf(CurrentStore, cleanQuery)
    /\ log' = Append(log, Event("fetch", CurrentStore.name, 0, TRUE))
    /\ StartFetch("search")
    /\ pc' = "store_fetch"
    /\ UNCHANGED <<dbVars, runs, now, loopVars, cleanQuery, sidx, faults, listings>>
    /\ UNCHANGED <<cycles, console, call>>

\* lines 583-612: the upsert of the store's row
upsertStore ==
    /\ pc = "store_ret"
    /\ LET id == products[idx].id
           matched == fret.found /\ fret.price > 0
           price == IF matched THEN fret.price ELSE NullPrice
           currency == IF matched THEN fret.currency ELSE ""
           sent == [price |-> price, store_url |-> searchUrl,
                    prior |-> priorPrice(comparison_prices, id, CurrentStore.name)]
       IN \/ /\ Succeeds
             /\ comparison_prices' =
                   upsertComparison(comparison_prices, id, CurrentStore.name, searchUrl,
                                    price, currency, matched, now, matched)
             /\ log' = Append(log, Event("upsert", CurrentStore.name, sent, TRUE))
          \/ /\ Fails
             /\ UNCHANGED comparison_prices
             /\ log' = Append(log, Event("upsert", CurrentStore.name, sent, FALSE))
    /\ exitPath' = ""
    /\ pc' = "store_delay"
    /\ UNCHANGED <<products_tbl, price_history, runs, now, loopVars, cmpVars,
                   fpc, fmode, browser, sessions, fret>>
    /\ UNCHANGED <<cycles, console, call>>

\* line 615: the delay between stores
storeDelay ==
    /\ pc = "store_delay"
    /\ sidx' = sidx + 1
    /\ pc' = "cmp"
    /\ log' = Append(log, Event("delay", "store", 3000, TRUE))
    /\ UNCHANGED <<dbVars, runs, now, loopVars, cleanQuery, searchUrl, fetchVars,
                   faults, listings>>
    /\ UNCHANGED <<cycles, console, call>>

\* scrapeComparisonPrices returns
comparisonDone ==
    /\ pc = "cmp"
    /\ sidx > Len(getStoresForCurrency(productCurrency))
    /\ pc' = "prod_delay"
    /\ UNCHANGED <<dbVars, runs, now, loopVars, cmpVars, fetchVars, log, faults, listings>>
    /\ UNCHANGED <<cycles, console, call>>

\* variant: the loop skips the product after the one it processed
productDelaySkips ==
    /\ pc = "prod_delay"
    /\ idx' = idx + 2
    /\ pc' = "loop"
    /\ log' = Append(log, Event("delay", "product", 5000, TRUE))
    /\ UNCHANGED <<dbVars, runs, now, products, productName, productCurrency, result,
                   cmpVars, fetchVars, faults, listings>>
    /\ UNCHANGED <<cycles, console, call>>

\* line 776: the delay between products
productDelay ==
    /\ pc = "prod_delay"
    /\ idx' = idx + 1
    /\ pc' = "loop"
    /\ log' = Append(log, Event("delay", "product", 5000, TRUE))
    /\ UNCHANGED <<dbVars, runs, now, products, productName, productCurrency, result,
                   cmpVars, fetchVars, faults, listings>>
    /\ UNCHANGED <<cycles, console, call>>

Next ==
    \/ handleStartTracking
    \/ handleStartTrackingScraping
    \/ startRun
    \/ nextProduct
    \/ runComplete
    \/ puppeteerLaunch
    \/ pageEvaluate
    \/ browserClose
    \/ updateProduct
    \/ appendHistory
    \/ markFailed
    \/ nextStore
    \/ upsertStore
    \/ storeDelay
    \/ comparisonDone
    \/ productDelay

Spec == Init /\ [][Next]_vars

(***************************************************************************)
(* The ranker of scrapeSearchResults (lines 278-344) called on its own     *)
(***************************************************************************)
T_KIT == <<"K","i","t">>
RankTitles == {T_SONY, T_MATCH, T_JUNK, T_KIT}
RankPrices == {1, 2, 9}
\* position is the index of the result container, 0..maxResults - 1
RankPositions == {0, 4, 9}
Candidates == [title : RankTitles, price : RankPrices, position : RankPositions]
\* page.evaluate pushes the results in container order
RankLists ==
    {<<>>} \cup {<<c>> : c \in Candidates}
           \cup {p \in Candidates \X Candidates : p[1].position < p[2].position}
RankerInputs ==
    [results : RankLists, targetProductName : {T_SONY, T_MATCH},
     referencePrice : {NullPrice, 2}]

InitRanker ==
    /\ WorkerInit
    /\ call \in {[fn |-> "rankResults", arg |-> a, done |-> FALSE, out |-> NoResult] :
                    a \in RankerInputs}

callRankResults ==
    /\ call.fn = "rankResults"
    /\ ~call.done
    /\ call' = [call EXCEPT !.done = TRUE,
                            !.out = rankResults(call.arg.results,
                                                call.arg.targetProductName,
                                                call.arg.referencePrice, "USD")]
    /\ UNCHANGED workerVars

NextRanker == callRankResults

SpecRanker == InitRanker /\ [][NextRanker]_vars

(***************************************************************************)
(* calculateKeywordScore (lines 68-82) called on its own                   *)
(***************************************************************************)
KeywordWords == {<<"S","o","n","y">>, <<"B","u","d","s">>, <<"t","h","e">>, T_KIT}
\* names and titles of up to two words
KeywordTexts ==
    {<<>>} \cup KeywordWords \cup {joinSpace(<<v, w>>) : v \in KeywordWords, w \in KeywordWords}
KeywordInputs == [targetName : KeywordTexts, resultTitle : KeywordTexts]

InitKeywords ==
    /\ WorkerInit
    /\ call \in {[fn |-> "calculateKeywordScore", arg |-> a, done |-> FALSE,
                   out |-> Frac(0, 1)] : a \in KeywordInputs}

callKeywordScore ==
    /\ call.fn = "calculateKeywordScore"
    /\ ~call.done
    /\ call' = [call EXCEPT !.done = TRUE,
                            !.out = calculateKeywordScore(call.arg.targetName,
                                                          call.arg.resultTitle)]
    /\ UNCHANGED workerVars

NextKeywords == callKeywordScore

SpecKeywords == InitKeywords /\ [][NextKeywords]_vars

(***************************************************************************)
(* Price normaliser: the body of the price loops of both page.evaluate     *)
(* callbacks (lines 245-262 and 408-425), for the text of one element      *)
(***************************************************************************)
DigitSeq == <<"0","1","2","3","4","5","6","7","8","9">>
DigitValue == [c \in DigitChars |-> (CHOOSE n \in 1..10 : DigitSeq[n] = c) - 1]
IsDigit(c) == c \in DigitChars

\* the decimal value of a sequence of digits
RECURSIVE digitsValue(_, _)
digitsValue(s, acc) ==
    IF s = <<>> THEN acc ELSE digitsValue(Tail(s), 10 * acc + DigitValue[Head(s)])

RECURSIVE pow10(_)
pow10(k) == IF k = 0 THEN 1 ELSE 10 * pow10(k - 1)

\* text[i .. i + n - 1] are n digits
digitsAt(text, i, n) ==
    i + n - 1 <= Len(text) /\ \A k \in i..(i + n - 1) : IsDigit(text[k])

\* the number of leading digits of s
RECURSIVE digitRun(_)
digitRun(s) == IF s # <<>> /\ IsDigit(Head(s)) THEN 1 + digitRun(Tail(s)) ELSE 0

\* Group 1 of the pattern starts at the first digit of the text: the prefix
\* [$\u00a3\u20ac]?\s* is optional and a match is sought from the left.
firstDigit(text) ==
    IF \E i \in 1..Len(text) : IsDigit(text[i])
    THEN CHOOSE i \in 1..Len(text) :
            IsDigit(text[i]) /\ \A j \in 1..(i - 1) : ~IsDigit(text[j])
    ELSE 0

\* \d{1,3}, greedy: the position after it
leadEnd(text, i) ==
    IF digitsAt(text, i, 3) THEN i + 3 ELSE IF digitsAt(text, i, 2) THEN i + 2 ELSE i + 1

\* (?:[,.\s]\d{3})*, greedy: the position after it
RECURSIVE groupsEnd(_, _)
groupsEnd(text, j) ==
    IF /\ j <= Len(text)
       /\ (text[j] \in {",", "."} \/ IsSpace(text[j]))
       /\ digitsAt(text, j + 1, 3)
    THEN groupsEnd(text, j + 4)
    ELSE j

\* (?:[.,]\d{2})?, greedy: the position after it
decimalsEnd(text, j) ==
    IF j <= Len(text) /\ text[j] \in {".", ","} /\ digitsAt(text, j + 1, 2)
    THEN j + 3
    ELSE j

\* match[1] of text.match(pattern), <<>> when there is no match.  The first
\* alternative matches wherever a digit stands and every part after \d{1,3}
\* is optional, so nothing is given back and the second alternative is never
\* tried.
priceMatch(text) ==
    LET i == firstDigit(text)
    IN IF i = 0 THEN <<>>
       ELSE SubSeq(text, i, decimalsEnd(text, groupsEnd(text, leadEnd(text, i))) - 1)

\* priceStr.match(/,\d{2}$/)
endsWithCommaAndTwoDigits(s) ==
    Len(s) >= 3 /\ s[Len(s) - 2] = "," /\ digitsAt(s, Len(s) - 1, 2)

\* priceStr.replace(',', '.'): the first comma only
RECURSIVE replaceFirstComma(_)
replaceFirstComma(s) ==
    IF s = <<>> THEN s
    ELSE IF Head(s) = "," THEN <<".">> \o Tail(s)
    ELSE <<Head(s)>> \o replaceFirstComma(Tail(s))

\* lines 248-256: white space out, then the comma rule
normalizeSeparators(matched) ==
    LET priceStr == SelectSeq(matched, LAMBDA c : ~IsSpace(c))
    IN IF endsWithCommaAndTwoDigits(priceStr) /\ ~includes(priceStr, <<".">>)
       THEN replaceFirstComma(priceStr)
       ELSE SelectSeq(priceStr, LAMBDA c : c # ",")

\* parseFloat of a string that starts with a digit: the digits, and the
\* digits after one point; the value is mantissa / scale
parseFloat(s) ==
    LET n == digitRun(s)
        intDigits == SubSeq(s, 1, n)
        rest == SubSeq(s, n + 1, Len(s))
        m == IF rest # <<>> /\ Head(rest) = "." THEN digitRun(Tail(rest)) ELSE 0
        fracDigits == SubSeq(s, n + 2, n + 1 + m)
    IN Frac(digitsValue(intDigits \o fracDigits, 0), pow10(m))

\* if (price > 0 && price < 100000)
InBand(price) == price[1] > 0 /\ FracCmp(price[1], price[2], 100000, 1) < 0

NotFound == [found |-> FALSE]

\* what the loop body makes of the text of one price element
normalizePrice(text) ==
    LET matched == priceMatch(text)
    IN IF text = <<>> \/ matched = <<>> THEN NotFound
       ELSE LET price == parseFloat(normalizeSeparators(matched))
            IN IF InBand(price) THEN [found |-> TRUE, price |-> price] ELSE NotFound

PriceChars == {"1", "0", ",", "."}
P_US == <<"$","1",",","2","3","4",".","5","6">>
P_COMMA == <<"1","2",",","9","9">>
P_EU == <<"1",".","2","3","4",",","5","6">>
P_BIG == <<"9","9","9","9","9","9">>
P_ZERO == <<"0">>
\* the texts of the price elements: the five above, two without a digit, two
\* at the edges of the band, and every text of up to three PriceChars
PriceTexts ==
    {P_US, P_COMMA, P_EU, P_BIG, P_ZERO, <<"$">>, <<"x">>,
     <<"9","9","9","9","9">>, <<"1","0","0",",","0","0","0">>}
    \cup {<<a>> : a \in PriceChars}
    \cup {<<a, b>> : a \in PriceChars, b \in PriceChars}
    \cup {<<a, b, c>> : a \in PriceChars, b \in PriceChars, c \in PriceChars}

InitPrice ==
    /\ WorkerInit
    /\ call \in {[fn |-> "normalizePrice", arg |-> t, done |-> FALSE, out |-> NotFound] :
                    t \in PriceTexts}

callNormalizePrice ==
    /\ call.fn = "normalizePrice"
    /\ ~call.done
    /\ call' = [call EXCEPT !.done = TRUE, !.out = normalizePrice(call.arg)]
    /\ UNCHANGED workerVars

NextPrice == callNormalizePrice

SpecPrice == InitPrice /\ [][NextPrice]_vars

(***************************************************************************)
(* One comparison pass of scrapeComparisonPrices (lines 540-620) over       *)
(* stores whose search page lists ten results, one of them the product     *)
(***************************************************************************)
T_XM5 == <<"S","o","n","y"," ","W","H","-","1","0","0","0","X","M","5"," ","H","e","a","d","p","h","o","n","e","s">>
T_XM5_MATCH == <<"S","o","n","y"," ","W","H","-","1","0","0","0","X","M","5"," ","W","i","r","e","l","e","s","s"," ","H","e","a","d","p","h","o","n","e","s"," ","B","l","a","c","k">>
IrrelevantTitles ==
    << <<"G","a","r","d","e","n"," ","H","o","s","e">>,
       <<"U","S","B"," ","C","a","b","l","e">>,
       <<"D","e","s","k"," ","L","a","m","p">>,
       <<"Y","o","g","a"," ","M","a","t">>,
       <<"C","o","f","f","e","e"," ","M","u","g">>,
       <<"P","h","o","n","e"," ","C","a","s","e">>,
       <<"B","i","k","e"," ","L","o","c","k">>,
       <<"T","e","a"," ","K","e","t","t","l","e">>,
       <<"W","a","l","l"," ","C","l","o","c","k">> >>
REFERENCE_PRICE == 298
MATCH_PRICE == 310
IrrelevantPrices == {REFERENCE_PRICE, 20}
MaxResults == 10
ScenarioListings == 5   \* stores that may list the product in the pass

\* the results page.evaluate returns: the product at position p, the other
\* nine results in the remaining positions, each at price q
ScenarioPage(p, q) ==
    [i \in 1..MaxResults |->
        IF i = p + 1
        THEN [title |-> T_XM5_MATCH, price |-> MATCH_PRICE, position |-> i - 1]
        ELSE [title |-> IrrelevantTitles[IF i <= p THEN i ELSE i - 1],
              price |-> q, position |-> i - 1]]
ScenarioPages == {ScenarioPage(p, q) : p \in 0..(MaxResults - 1), q \in IrrelevantPrices}

\* the row the dashboard created, and what the own page gave for it
ScenarioProduct ==
    insertProduct(<<>>, scrapingNameOf(URL_AMAZON), URL_AMAZON, "USD", "scraping")[1]
ScenarioResult ==
    [found |-> TRUE, price |-> REFERENCE_PRICE,
     currency |-> resolveCurrency(ScenarioProduct), title |-> T_XM5]
ScenarioName == finalNameOf(ScenarioProduct, resolveName(ScenarioProduct), ScenarioResult)

\* runPriceCheck at line 764 for that row, in the first run: the own page was
\* scraped, the product row written, nothing appended to price_history (the
\* old price is 0); call holds the page every store serves in this pass
InitScenario ==
    /\ products_tbl = updateTracking(<<ScenarioProduct>>, ScenarioProduct.id, ScenarioName,
                                     ScenarioResult.currency, ScenarioResult.price, 3)
    /\ price_history = <<>>
    /\ comparison_prices = <<>>
    /\ pc = "cmp"
    /\ runs = 1
    /\ now = 3
    /\ products = <<ScenarioProduct>>
    /\ idx = 1
    /\ productName = ScenarioName
    /\ productCurrency = ScenarioResult.currency
    /\ result = ScenarioResult
    /\ cleanQuery = cleanQueryOf(ScenarioName)
    /\ sidx = 1
    /\ searchUrl = NoUrl
    /\ fpc = "none"
    /\ fmode = "own"
    /\ browser = FALSE
    /\ sessions = 0
    /\ fret = NoResult
    /\ exitPath = ""
    /\ log = << Event("fetch", "own", 0, TRUE),
                Event("update", "products",
                      [name |-> ScenarioName, currency |-> ScenarioResult.currency,
                       current_price |-> ScenarioResult.price, last_checked |-> 3,
                       status |-> "tracking"], TRUE) >>
    /\ console = <<>>
    /\ cycles = 1
    /\ faults = 0
    /\ listings = 0
    /\ call \in {[fn |-> "page.evaluate", out |-> pg] : pg \in ScenarioPages}

\* page.evaluate of scrapeSearchResults on a store of the pass
scenarioEvaluate == pageEvaluateFrom({}, {call.out}, ScenarioListings)

NextScenario ==
    \/ nextStore
    \/ puppeteerLaunch
    \/ scenarioEvaluate
    \/ browserClose
    \/ upsertStore
    \/ storeDelay
    \/ comparisonDone

SpecScenario == InitScenario /\ [][NextScenario]_vars

(***************************************************************************)
(* Dashboard: the manual edit of product-detail.tsx next to the worker     *)
(***************************************************************************)
T_EDIT == <<"M","y"," ","B","u","d","s">>
\* what the edit form holds when the user saves: editedName, the number
\* parsed from editedPrice, editedCurrency (one of the select's options)
EditForms == [name : {T_EDIT}, price : {5}, currency : {"USD", "JPY"}]

\* variant: the update leaves the status column out
updateEditedKeepsStatus(tbl, id, name, price, currency) ==
    [i \in 1..Len(tbl) |->
        IF tbl[i].id = id
        THEN [tbl[i] EXCEPT !.name = name, !.current_price = price,
                            !.currency = currency]
        ELSE tbl[i]]

\* .update({name, current_price, currency, status: 'tracking'}).eq('id', product.id)
updateEdited(tbl, id, name, price, currency) ==
    [i \in 1..Len(tbl) |->
        IF tbl[i].id = id
        THEN [tbl[i] EXCEPT !.name = name, !.current_price = price,
                            !.currency = currency, !.status = "tracking"]
        ELSE tbl[i]]

NoEdit == [fn |-> "handleUpdate", arg |-> <<>>, done |-> FALSE, out |-> ""]

\* handleUpdate: the user saves the form of one product, at any moment of the
\* worker.  call keeps the form, the row as it was and where the worker stood.
handleUpdate ==
    /\ call.fn = "handleUpdate"
    /\ ~call.done
    /\ \E i \in 1..Len(products_tbl), form \in EditForms :
          LET product == products_tbl[i]
              arg == [id |-> product.id, form |-> form, before |-> product, pc |-> pc]
          IN \/ /\ Succeeds
                /\ products_tbl' = updateEdited(products_tbl, product.id, form.name,
                                                form.price, form.currency)
                /\ call' = [fn |-> "handleUpdate", arg |-> arg, done |-> TRUE, out |-> "updated"]
             \/ /\ Fails          \* if (error) throw error: the toast, no write
                /\ UNCHANGED products_tbl
                /\ call' = [fn |-> "handleUpdate", arg |-> arg, done |-> TRUE, out |-> "failed"]
    /\ UNCHANGED <<price_history, comparison_prices, pc, runs, now, loopVars,
                   cmpVars, fetchVars, log, console, cycles>>

\* the worker before a run, no row in any table; the behaviour holds one
\* worker run over one product and one edit
InitEdit ==
    /\ products_tbl = <<>>
    /\ price_history = <<>>
    /\ comparison_prices = <<>>
    /\ pc = "idle"
    /\ runs = MaxRuns - 1
    /\ now = 1
    /\ products = <<>>
    /\ idx = 0
    /\ productName = <<>>
    /\ productCurrency = ""
    /\ result = NoResult
    /\ cleanQuery = <<>>
    /\ sidx = 0
    /\ searchUrl = NoUrl
    /\ fpc = "none"
    /\ fmode = "none"
    /\ browser = FALSE
    /\ sessions = 0
    /\ fret = NoResult
    /\ exitPath = ""
    /\ log = <<>>
    /\ console = <<>>
    /\ cycles = MaxCycles - 1
    /\ faults = 0
    /\ listings = 0
    /\ call = NoEdit

NextEdit == Next \/ handleUpdate

SpecEdit == InitEdit /\ [][NextEdit]_vars

(***************************************************************************)
(* One worker run over a table the dashboard filled, under fairness        *)
(***************************************************************************)
\* product-input-modal.tsx, handleSubmit: the manual entry, url: url || null,
\* the price typed in, no status column sent
insertManual(tbl, name, url, price, currency) ==
    Append(tbl, [id |-> Len(tbl) + 1, name |-> name, url |-> url,
                 current_price |-> price, currency |-> currency, status |-> "",
                 last_checked |-> 0])

RowKinds == {"queued", "scraping", "manual", "entered"}
AddRow(tbl, kind) ==
    CASE kind = "queued" ->
            insertProduct(tbl, trackingNameOf(URL_OTTO), URL_OTTO,
                          currencyFromHost(URL_OTTO.hostname, "USD"), "queued")
      [] kind = "scraping" ->
            insertProduct(tbl, scrapingNameOf(URL_AMAZON), URL_AMAZON, "USD", "scraping")
      [] kind = "manual" -> insertManual(tbl, T_SONY, NullUrl, 2, "USD")
      [] kind = "entered" -> insertManual(tbl, T_SONY, URL_AMAZON, 2, "USD")
RowPairs == { <<"manual", "scraping">>, <<"queued", "manual">>,
              <<"queued", "scraping">>, <<"entered", "entered">> }
RunTables ==
    {AddRow(<<>>, a) : a \in RowKinds}
        \cup {AddRow(AddRow(<<>>, p[1]), p[2]) : p \in RowPairs}

\* the worker before its run, the table filled by the dashboard
InitRun ==
    /\ products_tbl \in RunTables
    /\ price_history = <<>>
    /\ comparison_prices = <<>>
    /\ pc = "idle"
    /\ runs = MaxRuns - 1
    /\ now = 1
    /\ products = <<>>
    /\ idx = 0
    /\ productName = <<>>
    /\ productCurrency = ""
    /\ result = NoResult
    /\ cleanQuery = <<>>
    /\ sidx = 0
    /\ searchUrl = NoUrl
    /\ fpc = "none"
    /\ fmode = "none"
    /\ browser = FALSE
    /\ sessions = 0
    /\ fret = NoResult
    /\ exitPath = ""
    /\ log = <<>>
    /\ console = <<>>
    /\ cycles = 0
    /\ faults = 0
    /\ listings = 0
    /\ call = NoCall

NextRun ==
    \/ startRun
    \/ nextProduct
    \/ runComplete
    \/ puppeteerLaunch
    \/ pageEvaluate
    \/ browserClose
    \/ updateProduct
    \/ appendHistory
    \/ markFailed
    \/ nextStore
    \/ upsertStore
    \/ storeDelay
    \/ comparisonDone
    \/ productDelay

\* every awaited call of the run settles and the run goes on
SpecRun == InitRun /\ [][NextRun]_vars /\ WF_vars(NextRun)

(***************************************************************************)
(* calculateSimilarity (lines 44-55) called on its own                     *)
(***************************************************************************)
SimChars == {"a", "B"}
SimStrings ==
    {<<>>} \cup {<<c>> : c \in SimChars}
           \cup {<<c, d>> : c \in SimChars, d \in SimChars}
           \cup {<<c, d, e>> : c \in SimChars, d \in SimChars, e \in SimChars}
SimilarityInputs == [s : SimStrings, t : SimStrings]

InitSimilarity ==
    /\ WorkerInit
    /\ call \in {[fn |-> "calculateSimilarity", arg |-> a, done |-> FALSE, out |-> <<>>] :
                    a \in SimilarityInputs}

\* the similarity of each of the two strings to the empty string, and to
\* each other in both orders
callSimilarity ==
    /\ call.fn = "calculateSimilarity"
    /\ ~call.done
    /\ call' = [call EXCEPT !.done = TRUE,
                            !.out = [s |-> calculateSimilarity(call.arg.s, <<>>),
                                     t |-> calculateSimilarity(call.arg.t, <<>>),
                                     st |-> calculateSimilarity(call.arg.s, call.arg.t),
                                     ts |-> calculateSimilarity(call.arg.t, call.arg.s)]]
    /\ UNCHANGED workerVars

NextSimilarity == callSimilarity

SpecSimilarity == InitSimilarity /\ [][NextSimilarity]_vars

(***************************************************************************)
(* The working currency of a product (lines 674-699) computed on its own   *)
(***************************************************************************)
Hostnames ==
    { <<"w","w","w",".","a","m","a","z","o","n",".","c","o","m">>,
      <<"w","w","w",".","d","e","l","l",".","c","o","m">>,
      <<"w","w","w",".","c","a","r","s",".","c","o","m">>,
      <<"w","w","w",".","a","m","a","z","o","n",".","c","o",".","u","k">>,
      <<"w","w","w",".","a","m","a","z","o","n",".","d","e">>,
      <<"w","w","w",".","f","n","a","c",".","f","r">>,
      <<"w","w","w",".","a","m","a","z","o","n",".","i","t">>,
      <<"w","w","w",".","a","m","a","z","o","n",".","e","s">>,
      <<"w","w","w",".","a","m","a","z","o","n",".","c","a">>,
      <<"w","w","w",".","a","m","a","z","o","n",".","c","o","m",".","a","u">>,
      <<"w","w","w",".","e","b","a","y",".","c","o","m">>,
      <<"w","w","w",".","b","e","s","t","b","u","y",".","c","o","m">> }
StoredCurrencies == {"", "USD", "EUR", "GBP", "JPY", "CAD", "AUD"}
\* a products row as the worker reads it, for a URL of the host
ProductAt(hostname, currency) ==
    [id |-> 1, name |-> T_SONY,
     url |-> [valid |-> TRUE, hostname |-> hostname, path |-> <<>>],
     current_price |-> 0, currency |-> currency, status |-> "queued", last_checked |-> 0]

InitCurrency ==
    /\ WorkerInit
    /\ call \in {[fn |-> "resolveCurrency", arg |-> ProductAt(h, c), done |-> FALSE, out |-> ""] :
                    h \in Hostnames, c \in StoredCurrencies}

callResolveCurrency ==
    /\ call.fn = "resolveCurrency"
    /\ ~call.done
    /\ call' = [call EXCEPT !.done = TRUE, !.out = resolveCurrency(call.arg)]
    /\ UNCHANGED workerVars

NextCurrency == callResolveCurrency

SpecCurrency == InitCurrency /\ [][NextCurrency]_vars

(***************************************************************************)
(* Properties                                                              *)
(***************************************************************************)
LogIdx == 1..Len(log)
LastEvent == log[Len(log)]
IsStoreFetch(e) == e.op = "fetch" /\ e.key # "own"
StoreFetches == SelectSeq(log, IsStoreFetch)
StoreNames == [i \in 1..Len(getStoresForCurrency(productCurrency)) |->
                  getStoresForCurrency(productCurrency)[i].name]
HistoryEvents == {i \in LogIdx : log[i].op = "history"}
\* the cycle of products[idx] is past the price_history step
PastHistory == pc \in {"cmp", "store_fetch", "store_ret", "store_delay", "prod_delay"}
CurrentId == products[idx].id
CurrentRow == products_tbl[CHOOSE i \in 1..Len(products_tbl) : products_tbl[i].id = CurrentId]
\* rows of this cycle: now is read once per product
HistoryRowsNow == {i \in 1..Len(price_history) :
                      /\ price_history[i].product_id = CurrentId
                      /\ price_history[i].recorded_at = now}
ComparisonRow(id, storeName) ==
    comparison_prices[CHOOSE i \in 1..Len(comparison_prices) :
                         SameKey(comparison_prices[i], id, storeName)]

\* C1: when the own-page scrape of a product returns no result, the worker
\* issues the status write 'scrape_failed' for that product (the row holds it
\* when the store accepts the write), issues no comparison search and no
\* comparison_prices upsert for it in that cycle, and touches none of its
\* comparison rows, whatever products came before it in the run.
C1_FailedScrapeMarksAndSkips ==
    (pc = "prod_delay" /\ ~result.found) =>
        /\ Len(log) = 2
        /\ log[1].op = "fetch" /\ log[1].key = "own"
        /\ log[2].op = "mark_failed"
        /\ (log[2].ok => CurrentRow.status = "scrape_failed")
        /\ \A i \in 1..Len(comparison_prices) :
              comparison_prices[i].product_id = CurrentId
                  => comparison_prices[i].last_checked < now

\* the second product of a run fails after the first one was compared
C1_Witness ==
    /\ pc = "prod_delay"
    /\ ~result.found
    /\ idx = 2
    /\ log[2].ok
    /\ CurrentRow.status = "scrape_failed"
    /\ \E i \in 1..Len(comparison_prices) :
          comparison_prices[i].product_id = products[1].id

\* C2 (as the specification states it): after a successful own-page scrape
\* whose price differs from the stored current_price, 0 included, exactly one
\* price_history row with the new price and source 'price_worker_automation'
\* is appended in that cycle.
C2_AppendsOnAnyDifference ==
    (PastHistory /\ result.found /\ result.price # products[idx].current_price) =>
        /\ Cardinality(HistoryEvents) = 1
        /\ \A i \in HistoryEvents :
              /\ log[i].val = result.price
              /\ log[i].ok =>
                    /\ Cardinality(HistoryRowsNow) = 1
                    /\ \A j \in HistoryRowsNow :
                          /\ price_history[j].price = result.price
                          /\ price_history[j].source = "price_worker_automation"

\* C3: per product and cycle at most one price_history row is appended, and
\* none when the scraped price equals the stored price or the own-page
\* scrape returned no result.
C3_AppendOnlyOnChange ==
    /\ \A i, j \in 1..Len(price_history) :
          (/\ price_history[i].product_id = price_history[j].product_id
           /\ price_history[i].recorded_at = price_history[j].recorded_at) => i = j
    /\ Cardinality(HistoryEvents) <= 1
    /\ (/\ PastHistory
        /\ \/ ~result.found
           \/ result.price = products[idx].current_price) =>
          /\ HistoryEvents = {}
          /\ HistoryRowsNow = {}

\* a second check finds the price the first check stored
C3_Witness ==
    /\ pc = "prod_delay"
    /\ result.found
    /\ products[idx].current_price > 0
    /\ result.price = products[idx].current_price
    /\ HistoryRowsNow = {}

\* C4: after a successful own-page scrape the worker's second step for the
\* product, before any store search, is the products update with status
\* 'tracking', the scraped price, the resolved currency and a last_checked
\* newer than the one read; the row holds these values when the store accepts
\* the write, whatever status it had.
C4_TrackingWriteBeforeComparison ==
    ((pc = "history" \/ PastHistory) /\ result.found) =>
        /\ Len(log) >= 2
        /\ log[2].op = "update"
        /\ log[2].val.status = "tracking"
        /\ log[2].val.current_price = result.price
        /\ log[2].val.currency = productCurrency
        /\ log[2].val.last_checked = now
        /\ now > products[idx].last_checked
        /\ \A i \in LogIdx : IsStoreFetch(log[i]) => i > 2
        /\ log[2].ok =>
              /\ CurrentRow.status = "tracking"
              /\ CurrentRow.current_price = result.price
              /\ CurrentRow.currency = productCurrency
              /\ CurrentRow.last_checked = now

\* a product that failed in the run before is scraped and a store is searched
C4_Witness ==
    /\ pc = "store_fetch"
    /\ result.found
    /\ products[idx].status = "scrape_failed"
    /\ log[2].ok
    /\ CurrentRow.status = "tracking"

\* C5: comparison_prices never holds two rows with the same
\* (product_id, store_name).
C5_OneRowPerProductAndStore ==
    \A i, j \in 1..Len(comparison_prices) :
        SameKey(comparison_prices[i], comparison_prices[j].product_id,
                comparison_prices[j].store_name) => i = j

\* a later run upserts a key that already has a row
C5_Witness ==
    /\ runs = 2
    /\ pc = "store_delay"
    /\ LastEvent.op = "upsert"
    /\ LastEvent.ok
    /\ LastEvent.val.prior # AbsentRow
    /\ ComparisonRow(CurrentId, CurrentStore.name).last_checked = now

\* C6, state part: when the search of a store returned no accepted match the
\* worker upserts the (product, store) row with a null price, unavailable,
\* and the search URL just used.
C6_NoMatchRow ==
    (pc = "store_delay" /\ ~fret.found) =>
        /\ LastEvent.op = "upsert"
        /\ LastEvent.key = CurrentStore.name
        /\ LastEvent.val.price = NullPrice
        /\ LastEvent.val.store_url = searchUrl
        /\ LastEvent.ok =>
              /\ ComparisonRow(CurrentId, CurrentStore.name).price = NullPrice
              /\ ComparisonRow(CurrentId, CurrentStore.name).is_available = FALSE
              /\ ComparisonRow(CurrentId, CurrentStore.name).store_url = searchUrl

\* C6, step part: no step removes a comparison_prices row
C6_NoDelete ==
    \A i \in 1..Len(comparison_prices) :
        \E j \in 1..Len(comparison_prices') :
            SameKey(comparison_prices'[j], comparison_prices[i].product_id,
                    comparison_prices[i].store_name)

\* C6: a search without an accepted match overwrites the row of that product
\* and store with price null, is_available false and the search URL just
\* used, also when the row held a price matched earlier; rows are never
\* deleted.
C6_NoMatchOverwritesNeverDeletes == [] C6_NoMatchRow /\ [][C6_NoDelete]_vars

\* a price matched in the first run is overwritten with null in the second
C6_Witness ==
    /\ pc = "store_delay"
    /\ ~fret.found
    /\ LastEvent.op = "upsert"
    /\ LastEvent.ok
    /\ LastEvent.val.prior > 0
    /\ ComparisonRow(CurrentId, CurrentStore.name).price = NullPrice

\* C7: after a successful own-page scrape the store searches started so far
\* are a prefix of the currency's store list, each store once and in list
\* order, and when the comparison pass is over they are the whole list, also
\* when an earlier search threw or an earlier upsert failed.
C7_EveryStoreOnceInOrder ==
    /\ Len(StoreFetches) <= Len(StoreNames)
    /\ \A i \in 1..Len(StoreFetches) : StoreFetches[i].key = StoreNames[i]
    /\ (pc = "prod_delay" /\ result.found) => Len(StoreFetches) = Len(StoreNames)

\* the search of the first store threw and the pass still covered the list
C7_Witness ==
    /\ pc = "prod_delay"
    /\ result.found
    /\ Len(StoreFetches) = Len(StoreNames)
    /\ \E i \in LogIdx : log[i].op = "store_error" /\ log[i].key = StoreNames[1]

ExitPaths == {"price", "no_price", "title_only", "match", "empty", "below", "error",
              "launch_error", "close_error"}

\* C8: in both fetch modes, on every exit path (price or match found, empty
\* result, score below the threshold, navigation or extraction error, launch
\* failure, close failure) the session the call launched is closed when the
\* call has returned or thrown; while the call runs the open session is the
\* one it holds.
C8_SessionClosedOnEveryExit ==
    /\ \A path \in ExitPaths : (fpc = "none" /\ exitPath = path) => sessions = 0
    /\ fpc = "none" => sessions = 0
    /\ fpc # "none" => sessions = (IF browser THEN 1 ELSE 0)

\* a search whose candidates all scored below the threshold has returned
C8_Witness ==
    /\ fpc = "none"
    /\ fmode = "search"
    /\ pc = "store_ret"
    /\ exitPath = "below"
    /\ sessions = 0

\* C9: at most one browser session is open; a session is open only inside
\* the one running fetch call, which belongs to the one product and the one
\* store being processed; no session is open during a delay or when the run
\* has ended.
C9_OneSessionNoneWhileWaiting ==
    /\ sessions \in {0, 1}
    /\ sessions = 1 => /\ fpc \in {"evaluate", "finally"}
                       /\ \/ pc = "own_fetch" /\ fmode = "own"
                          \/ pc = "store_fetch" /\ fmode = "search"
    /\ fpc # "none" => /\ idx \in 1..Len(products)
                       /\ pc = "store_fetch" =>
                             sidx \in 1..Len(getStoresForCurrency(productCurrency))
    /\ pc \in {"store_delay", "prod_delay", "idle", "done", "crashed", "exited"} =>
          sessions = 0 /\ fpc = "none"

\* the delay after the second store of the second product
C9_Witness ==
    /\ pc = "store_delay"
    /\ idx = 2
    /\ sidx = 2
    /\ sessions = 0

\* C10 (as the specification states it): a failure inside a page fetch,
\* closing the session included, never leaves the call as an exception: the
\* call returns 'no result' and the orchestrator goes on.
C10_FetchFailureNeverPropagates ==
    /\ pc # "crashed"
    /\ \A i \in LogIdx : log[i].op # "store_error"
    /\ (fpc = "none" /\ exitPath \in {"error", "launch_error", "close_error"}) =>
          /\ pc \in {"own_ret", "store_ret"}
          /\ ~(IF fmode = "own" THEN result ELSE fret).found

WriteOps == {"update", "history", "mark_failed", "upsert"}

\* C11 (as the specification states it): a failed write to the persisted
\* store (products update, price_history insert, comparison_prices upsert)
\* is reported on the console at its call site, and the run goes on.
C11_FailedWriteLoggedRunGoesOn ==
    \A i \in LogIdx :
        (log[i].op \in WriteOps /\ ~log[i].ok) =>
            /\ \E k \in 1..Len(console) : console[k].what = log[i].op
            /\ pc \notin {"crashed", "exited"}

\* the process ended before runPriceCheck came to its end
HardFailed == pc \in {"exited", "crashed"}

\* C12 (as the specification states it): with a credential missing the
\* process exits at once, before any product is read, any session opened or
\* any row written, and a missing credential is the only reason for the
\* worker to end before the run is complete.
C12_OnlyMissingCredentialsHardFail ==
    /\ pc = "exited" => /\ products = <<>>
                        /\ log = <<>>
                        /\ sessions = 0
                        /\ fpc = "none"
    /\ HardFailed => /\ console # <<>>
                     /\ console[Len(console)] = ConsoleLine("error", "credentials")

\* C13 (as the specification states it): when the scraped price is lower
\* than the stored price and the owner has a webhook URL configured, a POST
\* with the old price, the new price and the savings is sent in that cycle.
C13_PriceDropSendsWebhook ==
    (/\ PastHistory
     /\ result.found
     /\ Truthy(products[idx].current_price)
     /\ result.price < products[idx].current_price
     /\ user_settings.discord_webhook # "") =>
        \E i \in LogIdx :
            log[i] = sendDiscordNotification(user_settings.discord_webhook, products[idx],
                                             products[idx].current_price, result.price)

RankerDone == call.fn = "rankResults" /\ call.done

\* 0.4*similarity + 0.3*keywordOverlap + 0.2*(1 - 0.05*position) + 0.1*priceScore
WeightedScore(a, r) ==
    FracAdd(FracAdd(FracMul(Frac(4, 10), calculateSimilarity(a.targetProductName, r.title)),
                    FracMul(Frac(3, 10), calculateKeywordScore(a.targetProductName, r.title))),
            FracAdd(FracMul(Frac(2, 10), Frac(20 - r.position, 20)),
                    FracMul(Frac(1, 10), priceScore(r.price, a.referencePrice))))

IsBestCandidate(a, i) ==
    \A j \in 1..Len(a.results) :
        ScoreGe(WeightedScore(a, a.results[i]), WeightedScore(a, a.results[j]))

\* C14: the ranker returns a match exactly when the highest weighted score
\* among the candidates is at least 0.3, and the candidate it returns has
\* the highest weighted score; otherwise it returns no result.
C14_RankerReturnsBestIffThreshold ==
    RankerDone =>
        LET a == call.arg
            n == Len(a.results)
        IN /\ call.out.found <=>
                 \E i \in 1..n : /\ IsBestCandidate(a, i)
                                 /\ ScoreGe(WeightedScore(a, a.results[i]), Frac(3, 10))
           /\ call.out.found =>
                 \E i \in 1..n : /\ IsBestCandidate(a, i)
                                 /\ a.results[i].price = call.out.price
                                 /\ a.results[i].title = call.out.title

\* the second of two candidates wins
C14_Witness ==
    /\ RankerDone
    /\ Len(call.arg.results) = 2
    /\ call.out.found
    /\ call.out.title = call.arg.results[2].title
    /\ call.out.title # call.arg.results[1].title
    /\ ~IsBestCandidate(call.arg, 1)

\* C15: a list whose best candidate has title similarity 0, keyword overlap 0
\* and the last position (9), ranked without a reference price, gives no
\* match.
C15_HopelessBestIsRejected ==
    (/\ RankerDone
     /\ call.arg.referencePrice = NullPrice
     /\ \E i \in 1..Len(call.arg.results) :
           /\ IsBestCandidate(call.arg, i)
           /\ calculateSimilarity(call.arg.targetProductName, call.arg.results[i].title)[1] = 0
           /\ calculateKeywordScore(call.arg.targetProductName, call.arg.results[i].title)[1] = 0
           /\ call.arg.results[i].position = 9) =>
        call.out = NoResult

\* the only candidate is "Kit" in the last position, the target "Sony Buds"
C15_Witness ==
    /\ RankerDone
    /\ call.arg.referencePrice = NullPrice
    /\ call.arg.targetProductName = T_SONY
    /\ Len(call.arg.results) = 1
    /\ call.arg.results[1].title = T_KIT
    /\ call.arg.results[1].position = 9
    /\ calculateSimilarity(T_SONY, T_KIT)[1] = 0
    /\ call.out = NoResult

\* C16 (as the specification states it): keywordOverlap is the number of
\* distinct significant target tokens found among the candidate's tokens,
\* divided by the number of distinct significant target tokens; it lies in
\* [0,1], and is 0 when the target has no significant token.
C16_KeywordOverlapIsFractionOfTarget ==
    (call.fn = "calculateKeywordScore" /\ call.done) =>
        LET targetTokens == SeqToSet(extractKeywords(call.arg.targetName))
            resultTokens == SeqToSet(extractKeywords(call.arg.resultTitle))
        IN /\ call.out[1] >= 0
           /\ call.out[1] <= call.out[2]
           /\ targetTokens = {} => call.out[1] = 0
           /\ targetTokens # {} =>
                 FracEq(call.out, Frac(Cardinality(targetTokens \cap resultTokens),
                                       Cardinality(targetTokens)))

PriceDone(text) == call.fn = "normalizePrice" /\ call.done /\ call.arg = text
YieldsPrice(num, den) == call.out.found /\ FracCmp(call.out.price[1], call.out.price[2], num, den) = 0

\* C17 (as the specification states it): "$1,234.56" gives 1234.56, "12,99"
\* gives 12.99 and "1.234,56" gives 1234.56.
C17_NormalisesThreeFormats ==
    /\ PriceDone(P_US) => YieldsPrice(123456, 100)
    /\ PriceDone(P_COMMA) => YieldsPrice(1299, 100)
    /\ PriceDone(P_EU) => YieldsPrice(123456, 100)

\* C18 (as the specification states it): a text whose numeric value is <= 0
\* or >= 100000 gives not-found; here for the texts that are one run of
\* digits, "999999" and "0" among them.
C18_OutOfBandIsNotFound ==
    (/\ call.fn = "normalizePrice"
     /\ call.done
     /\ call.arg # <<>>
     /\ \A i \in 1..Len(call.arg) : IsDigit(call.arg[i])
     /\ \/ digitsValue(call.arg, 0) <= 0
        \/ digitsValue(call.arg, 0) >= 100000) =>
        ~call.out.found

\* C19: with the target name "Sony WH-1000XM5 Headphones", the reference
\* price 298 and a search page of ten results, one titled "Sony WH-1000XM5
\* Wireless Headphones Black" at 310 and nine irrelevant ones, the ranker
\* returns that result whatever its position among the ten, and the upsert
\* the store accepts leaves the store's row with the price 310 and
\* is_available = true.
C19_Selected ==
    (pc = "store_ret" /\ exitPath \notin {"launch_error", "error"})
        => fret = [found |-> TRUE, price |-> MATCH_PRICE,
                   currency |-> productCurrency, title |-> T_XM5_MATCH]
C19_Upserted ==
    (/\ pc = "store_ret" /\ exitPath \notin {"launch_error", "error"}
     /\ pc' = "store_delay" /\ LastEvent'.ok)
        => /\ LastEvent'.op = "upsert"
           /\ LastEvent'.val.price = MATCH_PRICE
           /\ ComparisonRow(CurrentId, CurrentStore.name)'.price = MATCH_PRICE
           /\ ComparisonRow(CurrentId, CurrentStore.name)'.is_available
C19_ScenarioMatchWinsAndIsUpserted == [] C19_Selected /\ [][C19_Upserted]_vars

\* the product is the last of the ten results, and the store's row holds it
C19_Witness ==
    /\ call.fn = "page.evaluate"
    /\ call.out[MaxResults].title = T_XM5_MATCH
    /\ pc = "store_delay"
    /\ LastEvent.op = "upsert" /\ LastEvent.ok
    /\ ComparisonRow(CurrentId, CurrentStore.name).price = MATCH_PRICE
    /\ ComparisonRow(CurrentId, CurrentStore.name).is_available

\* C20: between any two consecutive store search fetches of one product the
\* inter-store delay (3 s) has fully elapsed, and between the end of one
\* product's processing and the next product's own-page fetch the
\* inter-product delay (5 s) has fully elapsed, on every path, those where a
\* store iteration fails or throws included.
IsStoreDelay(e) == e.op = "delay" /\ e.key = "store"
IsProductDelay(e) == e.op = "delay" /\ e.key = "product"
C20_DelaysOnEveryPath ==
    /\ \A i, j \in LogIdx :
          (i < j /\ IsStoreFetch(log[i]) /\ IsStoreFetch(log[j]))
              => \E k \in (i + 1)..(j - 1) : IsStoreDelay(log[k])
    /\ (pc = "loop" /\ idx > 1) => IsProductDelay(LastEvent)

\* C21: a successful manual edit of a product (handleUpdate) sets the
\* product's status to 'tracking' whatever the status was before (queued,
\* scraping, tracking or scrape_failed).
RowOf(tbl, id) == tbl[CHOOSE i \in 1..Len(tbl) : tbl[i].id = id]
EditDone == call.fn = "handleUpdate" /\ call.done
C21_EditSetsTracking ==
    [][(~call.done /\ EditDone' /\ call'.out = "updated")
          => RowOf(products_tbl', call'.arg.id).status = "tracking"]_vars

\* a product the worker had marked scrape_failed was edited
C21_Witness ==
    /\ EditDone /\ call.out = "updated"
    /\ call.arg.before.status = "scrape_failed"
    /\ call.arg.pc = "done"
    /\ RowOf(products_tbl, call.arg.id).status = "tracking"

\* C22: when every page fetch and every store call returns, one worker run
\* processes each product that had a non-null URL at the initial read exactly
\* once, in the order read, and then terminates; when the initial read fails
\* the run ends without opening a browser session or writing any row.
WithUrl(tbl) == SelectSeq(tbl, LAMBDA r : r.url # NullUrl)
C22_ReadsRowsWithUrl ==
    (pc = "idle" /\ pc' = "loop") => (products' = WithUrl(products_tbl) /\ idx' = 1)
C22_OneAtATimeInOrder ==
    /\ (pc # "idle" /\ pc' # "idle") => products' = products
    /\ (pc = "loop" /\ pc' = "own_fetch")
          => (idx' = idx /\ log' = <<Event("fetch", "own", 0, TRUE)>>)
    /\ (pc # "idle" /\ idx' # idx) => (pc = "prod_delay" /\ pc' = "loop" /\ idx' = idx + 1)
    /\ (pc # "done" /\ pc' = "done" /\ pc # "idle") => idx > Len(products)
C22_FailedReadDoesNothing ==
    (pc = "idle" /\ pc' = "done")
        => /\ UNCHANGED <<products_tbl, price_history, comparison_prices, sessions>>
           /\ sessions' = 0 /\ fpc' = "none" /\ log' = <<>>
C22_EndedRunIsQuiet == pc = "done" => (sessions = 0 /\ fpc = "none" /\ ~browser)
C22_CrashOnlyOnThrow == pc = "crashed" => exitPath = "close_error"
C22_RunProcessesEachOnceThenEnds ==
    /\ [][C22_ReadsRowsWithUrl /\ C22_OneAtATimeInOrder /\ C22_FailedReadDoesNothing]_vars
    /\ [] (C22_CrashOnlyOnThrow /\ C22_EndedRunIsQuiet)
    /\ (pc = "loop") ~> (pc \in {"done", "crashed"})

\* a run over a table whose first row has no URL ended after its one product
C22_Witness ==
    /\ pc = "done"
    /\ Len(products_tbl) = 2 /\ products_tbl[1].url = NullUrl
    /\ Len(products) = 1 /\ products[1].id = 2
    /\ idx = 2
    /\ RowOf(products_tbl, 2).status = "tracking"

\* C23 as stated: similarity(s, "") decreases as the length of s grows: for
\* strings s and t with len(s) < len(t), similarity(t, "") < similarity(s, "").
SimilarityDone == call.fn = "calculateSimilarity" /\ call.done
C23_StrictlyDecreasing ==
    (SimilarityDone /\ Len(call.arg.s) < Len(call.arg.t))
        => ScoreGt(call.out.s, call.out.t)

\* C23 as amended: similarity(s, "") does not increase as the length of s
\* grows: for strings s and t with len(s) < len(t), similarity(t, "") <=
\* similarity(s, ""), and it is smaller exactly when s is empty (the
\* similarity to "" is 1 for the empty string and 0 for any other).
C23_NotIncreasing ==
    (SimilarityDone /\ Len(call.arg.s) < Len(call.arg.t))
        => /\ ScoreGe(call.out.s, call.out.t)
           /\ ScoreGt(call.out.s, call.out.t) <=> call.arg.s = <<>>
           /\ call.out.t = Frac(0, Len(call.arg.t))
           /\ call.out.s = IF call.arg.s = <<>> THEN Frac(1, 1) ELSE Frac(0, Len(call.arg.s))

\* two non-empty strings of different length, both at similarity 0 to ""
C23_Witness ==
    /\ SimilarityDone
    /\ Len(call.arg.s) = 1 /\ Len(call.arg.t) = 3
    /\ call.out.s = Frac(0, 1) /\ call.out.t = Frac(0, 3)

\* C24: across any sequence of worker cycles the price_history rows only
\* grow: the worker never updates or deletes a row, so every row present
\* before a step of a cycle is present and unchanged after it.
C24_HistoryOnlyGrows ==
    [][/\ Len(price_history') >= Len(price_history)
       /\ SubSeq(price_history', 1, Len(price_history)) = price_history
       /\ Len(price_history') <= Len(price_history) + 1]_vars

\* the second product's cycle appended its row after the first product's
C24_Witness ==
    /\ pc = "done"
    /\ Len(price_history) = 2
    /\ price_history[1].product_id = 1
    /\ price_history[2].product_id = 2

\* C25: when a product's own-page scrape fails, the worker changes only that
\* product's status: its name, current_price, currency and last_checked are
\* left as they were, no price_history row is appended and no
\* comparison_prices row of the product is touched.
C25_FailedScrapeChangesOnlyStatus ==
    (pc = "prod_delay" /\ ~result.found)
        => /\ \E st \in {products[idx].status, "scrape_failed"} :
                 CurrentRow = [products[idx] EXCEPT !.status = st]
           /\ \A i \in 1..Len(products_tbl) :
                 products_tbl[i].id # CurrentId =>
                     products_tbl[i].status # "scrape_failed" \/ i < idx
           /\ HistoryRowsNow = {}
           /\ \A i \in 1..Len(comparison_prices) :
                 comparison_prices[i].product_id = CurrentId
                     => comparison_prices[i].last_checked # now
           /\ \A i \in LogIdx : log[i].op \notin {"update", "history", "upsert"}

\* the second of two products entered with a price failed after the first
\* one was written
C25_Witness ==
    /\ pc = "prod_delay" /\ ~result.found
    /\ idx = 2
    /\ CurrentRow.status = "scrape_failed"
    /\ CurrentRow.current_price = 2 /\ CurrentRow.last_checked = 0
    /\ RowOf(products_tbl, 1).status = "tracking"

\* C26: the ranker never accepts a candidate whose title similarity and
\* keyword overlap with the target are both 0, at any position 0..9 and for
\* any reference price, a candidate at position 0 priced at the reference
\* price included.
IsUnrelated(a, r) ==
    /\ calculateSimilarity(a.targetProductName, r.title)[1] = 0
    /\ calculateKeywordScore(a.targetProductName, r.title)[1] = 0
C26_NeverAcceptsUnrelated ==
    (RankerDone /\ call.out.found)
        => \A i \in 1..Len(call.arg.results) :
              (/\ call.arg.results[i].title = call.out.title
               /\ call.arg.results[i].price = call.out.price)
                  => ~IsUnrelated(call.arg, call.arg.results[i])

\* C27: when a user edits a product (handleUpdate) while a worker run is in
\* progress, the old price the worker compares against to decide on a history
\* append, and the name it falls back to, are the values the products row
\* holds at the moment the worker writes that product; the worker never acts
\* on a copy read at the start of the run.
C27_WorkerSeesStoredRow ==
    (pc = "own_ret" /\ result.found)
        => /\ products[idx].current_price = CurrentRow.current_price
           /\ products[idx].name = CurrentRow.name

\* C28: the currency written on a matched comparison_prices row is the
\* currency key of the store list that was searched: for a product whose
\* currency has no store list (JPY, which the dialog offers) the USD stores
\* are searched and the row is not labelled with the product's currency.
StoreListKey(currency) == IF currency \in DOMAIN STORE_CONFIGS THEN currency ELSE "USD"
C28_RowCurrencyIsStoreListCurrency ==
    (/\ pc = "store_delay"
     /\ LastEvent.op = "upsert" /\ LastEvent.ok
     /\ LastEvent.val.price # NullPrice)
        => ComparisonRow(CurrentId, CurrentStore.name).currency = StoreListKey(productCurrency)

\* C29: the worker overrides a product's stored currency only when the URL's
\* host carries the matching country suffix (.co.uk, .de/.fr/.it/.es, .ca,
\* .com.au) as its top-level domain; for a host that merely contains such a
\* fragment inside a label (www.dell.com, www.cars.com) the stored currency is
\* kept, and that currency's store list is searched.
endsWith(s, p) == Len(s) >= Len(p) /\ SubSeq(s, Len(s) - Len(p) + 1, Len(s)) = p
CurrencyOfSuffix(hostname, currency) ==
    IF endsWith(hostname, <<".","c","o",".","u","k">>) THEN "GBP"
    ELSE IF \/ endsWith(hostname, <<".","d","e">>)
            \/ endsWith(hostname, <<".","f","r">>)
            \/ endsWith(hostname, <<".","i","t">>)
            \/ endsWith(hostname, <<".","e","s">>) THEN "EUR"
    ELSE IF endsWith(hostname, <<".","c","a">>) THEN "CAD"
    ELSE IF endsWith(hostname, <<".","c","o","m",".","a","u">>) THEN "AUD"
    ELSE currency
C29_OverrideOnlyOnCountrySuffix ==
    (call.fn = "resolveCurrency" /\ call.done)
        => LET stored == IF call.arg.currency = "" THEN "USD" ELSE call.arg.currency
           IN /\ call.out = CurrencyOfSuffix(call.arg.url.hostname, stored)
              /\ getStoresForCurrency(call.out)
                    = getStoresForCurrency(CurrencyOfSuffix(call.arg.url.hostname, stored))

\* C30: when the own page yields a title but no price text that parses into
\* the band 0 < price < 100000, the single-page fetch returns no result, so
\* the product is marked 'scrape_failed', its stored name is not replaced by
\* the scraped title or by the URL-derived name, and no comparison is run.
TitleOnly == pc = "own_ret" /\ exitPath = "title_only"
C30_NoResult == TitleOnly => (result = NoResult /\ sessions = 0)
C30_MarkedNotRenamed ==
    TitleOnly
        => /\ pc' = "prod_delay"
           /\ LastEvent'.op = "mark_failed"
           /\ LastEvent'.ok => CurrentRow'.status = "scrape_failed"
           /\ CurrentRow'.name = products[idx].name
           /\ CurrentRow' = [CurrentRow EXCEPT !.status = CurrentRow'.status]
           /\ UNCHANGED <<price_history, comparison_prices, sidx, cleanQuery>>
           /\ \A i \in 1..Len(log') : ~IsStoreFetch(log'[i])
C30_TitleWithoutPriceFails == [] C30_NoResult /\ [][C30_MarkedNotRenamed]_vars

\* the page of a product under its temporary name gave the title only; the
\* URL-derived working name differs from the stored name
C30_Witness ==
    /\ TitleOnly
    /\ result = NoResult
    /\ products[idx].status = "scraping"
    /\ productName # products[idx].name
    /\ CurrentRow.name = products[idx].name

====
